---- MODULE Spec2Model ----
(***************************************************************************)
(* Model of src/fetch_reply.py: the ingestion-classification-routing       *)
(* pipeline of EmailProcessor (process_unread_emails and                   *)
(* _process_single_email) together with the remote mailbox, the model API  *)
(* and the record store it talks to.                                       *)
(*                                                                         *)
(* One run of process_unread_emails is split at its blocking calls: the    *)
(* folder reconciliation, the mailbox listing, and per message the dedup   *)
(* check, the classifier call, the reply call, the insert, the move and    *)
(* the read/unread patch.  Every outcome a collaborator can produce is a   *)
(* nondeterministic input of the step that calls it.                       *)
(*                                                                         *)
(* MSGraphClient's token cache, retry_with_backoff, get_all_pages,         *)
(* _extract_clean_email_content and ensure_classification_folders each     *)
(* have a specification of their own over their own variables (TokenSpec,  *)
(* RetrySpec, PageSpec and WalkSpec, NormSpec, FolderSpec); the pipeline   *)
(* stands still in them.                                                   *)
(***************************************************************************)
EXTENDS Integers, Sequences, FiniteSets, TLC

\* ------------------------------------------------------------------ bounds
MaxMsgs == 2      \* messages in the mailbox, ids 1..MaxMsgs
MaxRuns == 2      \* runs of process_unread_emails

\* --------------------------------------------------------------- constants
BATCH_SIZE == 125

ALLOWED_LABELS ==
    << "no_reply_no_info", "no_reply_with_info", "auto_reply_no_info",
       "auto_reply_with_info", "invoice_request_no_info",
       "claims_paid_no_proof", "claims_paid_with_proof",
       "manual_review", "uncategorised" >>

RESPONSE_LABELS_Mutant ==
    << "invoice_request_no_info", "claims_paid_no_proof", "auto_reply_with_info" >>

RESPONSE_LABELS == << "invoice_request_no_info", "claims_paid_no_proof" >>

\* the literal of line 756 and of line 862
REVIEW_LABELS == << "manual_review", "uncategorised" >>

\* message_id stored when the move response carries no "id" (line 488)
UnknownId == 0

VARIABLES
    MAIL_SEND_ENABLED,  \* module flag, line 47
    FORCE_DRAFTS,       \* module flag, line 48
    mailbox,            \* remote mailbox: message -> [id, folder, isRead]
    mongo,              \* record store: sequence of persisted records
    run,                \* number of runs started so far (the batch id)
    pc,                 \* position inside process_unread_emails
    folder_mapping,     \* EmailProcessor.folder_mapping
    emails,             \* the fetched batch, ids in fetch order
    idx,                \* messages the for loop has taken so far
    stop_requested,     \* EmailProcessor.stop_requested
    metrics,            \* EmailProcessor.metrics
    result,             \* tuple returned by process_unread_emails
    message_id,         \* locals of _process_single_email
    label,
    confidence,
    reply_text,
    calls,              \* requests issued for the current message, in order
    started,            \* messages handed to _process_single_email in this run
    handled,            \* how each of them left _process_single_email
    run_log,            \* run-level requests of this run: folders, listing
    now,                \* time.time(), in seconds
    ticks,              \* how often the clock has advanced
    token_cache,        \* MSGraphClient._token_cache
    issued,             \* tokens the identity provider has issued
    token_call,         \* the last direct call of get_access_token
    client_calls,       \* calls made on the client so far
    wpc,                \* position inside the wrapper of retry_with_backoff
    func,               \* the operation the wrapper was applied to
    max_retries,        \* arguments of retry_with_backoff
    initial_backoff,
    backoff,            \* locals of wrapper
    attempt,
    last_exception,
    outcome,            \* what wrapper returned or raised
    invocations,        \* what each call of func did
    sleeps,             \* arguments of time.sleep, in order
    chain,              \* the pages the source serves: url -> page
    max_items,          \* argument of get_all_pages
    batch_size,         \* MSGraphClient.batch_size
    gpc,                \* position inside the generator of get_all_pages
    full_url,           \* locals of get_all_pages
    count,
    item_pos,           \* elements of data["value"] the for loop has taken
    yielded,            \* what the consumer of the generator received
    requests,           \* urls requested by the walk, in order
    msg,                \* the message handed to _extract_clean_email_content
    extraction,         \* what _extract_clean_email_content returned
    tree,               \* the folders of the mailbox: id -> [displayName, parent]
    fpc,                \* position inside ensure_classification_folders
    parent_id,          \* locals of ensure_classification_folders
    child_lookup,
    label_pos,          \* labels the for loop has taken
    folder_map,
    graph_log,          \* requests of ensure_classification_folders, in order
    returns             \* what each call of ensure_classification_folders returned

vars == << MAIL_SEND_ENABLED, FORCE_DRAFTS, mailbox, mongo, run, pc,
           folder_mapping, emails, idx, stop_requested, metrics, result,
           message_id, label, confidence, reply_text, calls, started,
           handled, run_log, now, ticks, token_cache, issued, token_call,
           client_calls, wpc, func, max_retries, initial_backoff, backoff,
           attempt, last_exception, outcome, invocations, sleeps,
           chain, max_items, batch_size, gpc, full_url, count, item_pos,
           yielded, requests, msg, extraction, tree, fpc, parent_id,
           child_lookup, label_pos, folder_map, graph_log, returns >>

config   == << MAIL_SEND_ENABLED, FORCE_DRAFTS >>
locals   == << message_id, label, confidence, reply_text >>
loopvars == << run, folder_mapping, emails, idx >>

\* the state of MSGraphClient and of the retry wrapper
wrappervars == << wpc, func, max_retries, initial_backoff, backoff, attempt,
                 last_exception, outcome, invocations, sleeps >>
clientvars  == << now, ticks, token_cache, issued, token_call, client_calls,
                 wrappervars >>

\* the state of one walk of get_all_pages
pagevars == << chain, max_items, batch_size, gpc, full_url, count, item_pos,
              yielded, requests >>

\* the state of the components that have a specification of their own
\* the state of one call of _extract_clean_email_content
normvars == << msg, extraction >>

\* the state of the folder reconciliation and of the folders it works on
foldervars == << tree, fpc, parent_id, child_lookup, label_pos, folder_map,
                graph_log, returns >>

componentvars == << pagevars, normvars, foldervars >>

\* the state of one run of process_unread_emails
pipelinevars == << MAIL_SEND_ENABLED, FORCE_DRAFTS, mailbox, mongo, run, pc,
                  folder_mapping, emails, idx, stop_requested, metrics,
                  result, message_id, label, confidence, reply_text, calls,
                  started, handled, run_log >>

\* ----------------------------------------------------------------- helpers
Range(s) == { s[i] : i \in 1..Len(s) }

\* dict.get(key, default)
DictGet(d, k, default) == IF k \in DOMAIN d THEN d[k] ELSE default

Last(s) == s[Len(s)]

Take(s, n) == SubSeq(s, 1, IF n < Len(s) THEN n ELSE Len(s))

Max(S) == CHOOSE x \in S : \A y \in S : y <= x

RECURSIVE Descending(_)
Descending(S) ==
    IF S = {} THEN << >>
    ELSE LET m == Max(S) IN << m >> \o Descending(S \ {m})

MsgIds == 1..MaxMsgs

\* the id a message gets from the server when it is moved
NewId(id) == id + MaxMsgs

\* folder ids are opaque strings; the folder of a label is named after it
FolderIdOf(l) == l
Inbox == "inbox"
NoFolder == ""

\* Python's None where an id is expected (line 493)
NoId == -1

NoResult == [success |-> FALSE, processed |-> -1, errored |-> -1, classified |-> -1]

ZeroMetrics ==
    [ emails_processed |-> 0, emails_classified |-> 0, emails_skipped |-> 0,
      emails_errored |-> 0, emails_moved |-> 0 ]

Call(op, id, arg, res, ret) ==
    [ op |-> op, id |-> id, arg |-> arg, res |-> res, ret |-> ret ]


\* ------------------------------------------------------ ModelAPIClient
\* what the model server can do with one classification request
ReturnedLabels ==
    { "invoice_request_no_info", "auto_reply_with_info", "manual_review",
      "not_a_label" }

ClassificationDicts ==
    { [label |-> l, confidence |-> 9, method |-> "ml"] : l \in ReturnedLabels }
    \cup { [confidence |-> 9, method |-> "ml"] }

ClassifierBehaviours ==
    { [tag |-> t, first |-> [method |-> "none"]] :
          t \in {"down", "http_error", "bad_format", "not_dict"} }
    \cup { [tag |-> "success", first |-> d] : d \in ClassificationDicts }

FallbackMutant(method) ==
    [label |-> "manual_review", confidence |-> 0, method |-> method]

\* the degraded result of classify_email (lines 160, 188, 191)
Fallback(method) ==
    [label |-> "uncategorised", confidence |-> 0, method |-> method]

\* ModelAPIClient.classify_email: the value it returns
classify_email(beh) ==
    CASE beh.tag = "down"       -> [isDict |-> TRUE, dict |-> Fallback("api_unavailable")]
      [] beh.tag = "http_error" -> [isDict |-> TRUE, dict |-> Fallback("api_error")]
      [] beh.tag = "bad_format" -> [isDict |-> TRUE, dict |-> Fallback("api_error")]
      [] beh.tag = "not_dict"   -> [isDict |-> FALSE, dict |-> [method |-> "none"]]
      [] OTHER                  -> [isDict |-> TRUE, dict |-> beh.first]

\* ModelAPIClient.classify_email: the requests it issues
classify_requests(beh) ==
    IF beh.tag = "down"
    THEN << Call("health", NoId, "", "fail", NoId) >>
    ELSE << Call("health", NoId, "", "ok", NoId),
            Call("classify", NoId,
                 CASE beh.tag = "success" -> DictGet(beh.first, "label", "<missing>")
                   [] OTHER -> "<" \o beh.tag \o ">",
                 IF beh.tag = "http_error" THEN "fail" ELSE "ok", NoId) >>

ReplyBehaviours == { "down", "http_error", "reply", "no_reply_field" }

\* ModelAPIClient.generate_reply: the value it returns
generate_reply(lbl, beh) ==
    IF lbl \notin Range(RESPONSE_LABELS) THEN ""
    ELSE IF beh = "reply" THEN "Dear customer" ELSE ""

\* ModelAPIClient.generate_reply: the requests it issues
reply_requests(lbl, beh) ==
    IF lbl \notin Range(RESPONSE_LABELS) THEN << >>
    ELSE IF beh = "down"
    THEN << Call("health", NoId, "", "fail", NoId) >>
    ELSE << Call("health", NoId, "", "ok", NoId),
            Call("reply", NoId, lbl,
                 IF beh = "http_error" THEN "fail" ELSE "ok", NoId) >>

\* ------------------------------------------------------- record store
\* mongo.email_exists
email_exists(id) == \E i \in 1..Len(mongo) : mongo[i].message_id = id

\* mongo.insert_email
insert_email(doc) == Append(mongo, doc)

\* mongo.update_message_id
update_message_id(old, new) ==
    [ i \in 1..Len(mongo) |->
        IF mongo[i].message_id = old
        THEN [mongo[i] EXCEPT !.message_id = new]
        ELSE mongo[i] ]

\* ------------------------------------------------------- remote mailbox
\* the unread messages of the inbox, newest first (lines 426-431)
UnreadInbox ==
    Descending({ mailbox[m].id : m \in { k \in MsgIds :
                     mailbox[k].folder = Inbox /\ ~mailbox[k].isRead } })

\* server side of POST /messages/{id}/move
ServerMove(id, folder_id) ==
    [ m \in MsgIds |->
        IF mailbox[m].id = id
        THEN [mailbox[m] EXCEPT !.id = NewId(id), !.folder = folder_id]
        ELSE mailbox[m] ]

\* server side of PATCH /messages/{id} {"isRead": ...}
ServerPatch(id, is_read) ==
    [ m \in MsgIds |->
        IF mailbox[m].id = id
        THEN [mailbox[m] EXCEPT !.isRead = is_read]
        ELSE mailbox[m] ]

\* --------------------------------------------------------------- Init
\* the pipeline before its first run
PipelineInit ==
    /\ MAIL_SEND_ENABLED \in BOOLEAN
    /\ FORCE_DRAFTS \in BOOLEAN
    /\ mailbox = [m \in MsgIds |-> [id |-> m, folder |-> Inbox, isRead |-> FALSE]]
    /\ mongo = << >>
    /\ run = 0
    /\ pc = "idle"
    /\ folder_mapping = [l \in {} |-> NoFolder]
    /\ emails = << >>
    /\ idx = 0
    /\ stop_requested = FALSE
    /\ metrics = ZeroMetrics
    /\ result = NoResult
    /\ message_id = NoId
    /\ label = ""
    /\ confidence = 0
    /\ reply_text = ""
    /\ calls = << >>
    /\ started = << >>
    /\ handled = << >>
    /\ run_log = << >>

\* no exception / no value where one is expected
NoError == [type |-> "none", status |-> 0]
NoOutcome == [kind |-> "none", value |-> "", error |-> NoError]
NoTokenCall ==
    [ force_refresh |-> FALSE, fresh |-> FALSE, config_ok |-> TRUE,
      raised |-> FALSE, token |-> 0, exchanges |-> 0,
      before |-> [token |-> 0, expires_at |-> 0],
      after |-> [token |-> 0, expires_at |-> 0], at |-> 0, lifetime |-> 0 ]

\* MSGraphClient after construction (lines 227-236); no call is in progress
ClientInit ==
    /\ now = 0
    /\ ticks = 0
    /\ token_cache = [token |-> 0, expires_at |-> 0]
    /\ issued = 0
    /\ token_call = NoTokenCall
    /\ client_calls = 0
    /\ wpc = "idle"
    /\ func = "none"
    /\ max_retries = 0
    /\ initial_backoff = 0
    /\ backoff = 0
    /\ attempt = 0
    /\ last_exception = NoError
    /\ outcome = NoOutcome
    /\ invocations = << >>
    /\ sleeps = << >>

\* no walk of get_all_pages is under way
PageIdle ==
    /\ chain = << >>
    /\ max_items = 0
    /\ batch_size = BATCH_SIZE
    /\ gpc = "none"
    /\ full_url = 0
    /\ count = 0
    /\ item_pos = 0
    /\ yielded = << >>
    /\ requests = << >>

\* no message is being normalized
NormIdle ==
    /\ msg = << >>
    /\ extraction = << >>

\* no reconciliation has been called
FolderIdle ==
    /\ tree = << >>
    /\ fpc = "idle"
    /\ parent_id = 0
    /\ child_lookup = << >>
    /\ label_pos = 0
    /\ folder_map = << >>
    /\ graph_log = << >>
    /\ returns = << >>

ComponentsIdle == PageIdle /\ NormIdle /\ FolderIdle

Init == PipelineInit /\ ClientInit /\ ComponentsIdle

\* ------------------------------------------- process_unread_emails (run)
ReturnedMutant(success) ==
    [ success |-> success, processed |-> 0, errored |-> 0, classified |-> 0 ]

Returned(success) ==
    [ success |-> success,
      processed |-> metrics.emails_processed,
      errored |-> metrics.emails_errored,
      classified |-> metrics.emails_classified ]

EarlyReturn(success) ==
    [ success |-> success, processed |-> 0, errored |-> 0, classified |-> 0 ]

\* except Exception of process_unread_emails (lines 930-932)
RunFails ==
    /\ result' = Returned(FALSE)
    /\ pc' = "returned"

\* EmailProcessor(batch_id) and _prepare_batch: a fresh processor per run
StartRun ==
    /\ pc \in {"idle", "returned"}
    /\ run < MaxRuns
    /\ run' = run + 1
    /\ pc' = "folders"
    /\ folder_mapping' = [l \in {} |-> NoFolder]
    /\ emails' = << >>
    /\ idx' = 0
    /\ stop_requested' = FALSE
    /\ metrics' = ZeroMetrics
    /\ result' = NoResult
    /\ message_id' = NoId
    /\ label' = ""
    /\ confidence' = 0
    /\ reply_text' = ""
    /\ calls' = << >>
    /\ started' = << >>
    /\ handled' = << >>
    /\ run_log' = << >>
    /\ UNCHANGED << config, clientvars, componentvars, mailbox, mongo >>

\* the label sets ensure_classification_folders can resolve in one run
ResolvedLabelSets ==
    { Range(ALLOWED_LABELS),
      Range(ALLOWED_LABELS) \ {"uncategorised", "invoice_request_no_info"},
      {} }

RunCall(op, res) == [op |-> op, res |-> res]

NoMappingMutant(fm) == FALSE

\* if not self.folder_mapping (line 899)
NoMapping(fm) == DOMAIN fm = {}

\* step 2 of process_unread_emails (lines 897-901)
EnsureFolders ==
    /\ pc = "folders"
    /\ \/ \E S \in ResolvedLabelSets :
             /\ folder_mapping' = [l \in S |-> FolderIdOf(l)]
             /\ run_log' = Append(run_log,
                    RunCall("folders", IF S = {} THEN "empty" ELSE "ok"))
             /\ IF NoMapping(folder_mapping')
                THEN /\ result' = EarlyReturn(FALSE)
                     /\ pc' = "returned"
                ELSE /\ pc' = "fetch"
                     /\ UNCHANGED result
       \/ /\ RunFails                      \* get_access_token raises (line 520)
          /\ run_log' = Append(run_log, RunCall("folders", "token_fail"))
          /\ UNCHANGED folder_mapping
    /\ UNCHANGED << config, clientvars, componentvars, mailbox, mongo, run, emails, idx, stop_requested,
                    metrics, locals, calls, started, handled >>

\* step 3 of process_unread_emails (lines 903-908) with fetch_unread_emails.
\* The listing succeeds and yields the whole batch, or it fails: a page
\* request fails after n items were yielded (get_all_pages breaks, lines
\* 314-322) or the count request raises and [] is returned (lines 465-473).
\* A failure after the last item of the batch changes nothing the run reads.
FetchUnread ==
    /\ pc = "fetch"
    /\ \/ \E n \in 0..Len(UnreadInbox), ok \in BOOLEAN :
             /\ ok => n = Len(UnreadInbox)
             /\ ~ok => (n < Len(UnreadInbox) \/ n = 0)
             /\ emails' = Take(Take(UnreadInbox, BATCH_SIZE), n)
             /\ run_log' = Append(run_log,
                    RunCall("list", IF ok THEN "ok" ELSE "failed"))
             /\ IF emails' = << >>
                THEN /\ result' = EarlyReturn(TRUE)
                     /\ pc' = "returned"
                ELSE /\ pc' = "loop"
                     /\ UNCHANGED result
       \/ /\ RunFails                      \* get_access_token raises (line 434)
          /\ run_log' = Append(run_log, RunCall("list", "token_fail"))
          /\ UNCHANGED emails
    /\ UNCHANGED << config, clientvars, componentvars, mailbox, mongo, run, folder_mapping, idx,
                    stop_requested, metrics, locals, calls, started, handled >>

StopSeenMutant == FALSE

\* if self.stop_requested (line 912)
StopSeen == stop_requested

\* for email in emails: the iterator is exhausted (line 911)
LoopExhausted ==
    /\ pc = "loop"
    /\ idx >= Len(emails)
    /\ pc' = "sync"
    /\ UNCHANGED << config, clientvars, componentvars, run_log, mailbox, mongo, loopvars, stop_requested, metrics,
                    result, locals, calls, started, handled >>

\* if self.stop_requested: break (lines 912-914)
LoopBreak ==
    /\ pc = "loop"
    /\ idx < Len(emails)
    /\ StopSeen
    /\ pc' = "sync"
    /\ UNCHANGED << config, clientvars, componentvars, run_log, mailbox, mongo, loopvars, stop_requested, metrics,
                    result, locals, calls, started, handled >>

\* self._process_single_email(email) is entered (lines 915, 660)
StartMessage ==
    /\ pc = "loop"
    /\ idx < Len(emails)
    /\ ~StopSeen
    /\ idx' = idx + 1
    /\ message_id' = emails[idx + 1]
    /\ label' = ""
    /\ confidence' = 0
    /\ reply_text' = ""
    /\ calls' = << >>
    /\ started' = Append(started,
           [id |-> emails[idx + 1], known |-> email_exists(emails[idx + 1])])
    /\ pc' = "dedup"
    /\ UNCHANGED << config, clientvars, componentvars, run_log, mailbox, mongo, run, folder_mapping, emails,
                    stop_requested, metrics, result, handled >>

\* --------------------------------------------- _process_single_email
\* how the current message left _process_single_email
Left(exit, log) ==
    handled' = Append(handled,
        [ id |-> emails[idx], exit |-> exit,
          moved |-> \E i \in 1..Len(log) :
                        log[i].op = "move" /\ log[i].res = "ok",
          tracked |-> \E i \in 1..Len(log) :
                        /\ log[i].op = "move"
                        /\ log[i].res = "ok"
                        /\ log[i].ret # NoId ])

ExceptHandlerMutant ==
    /\ result' = Returned(FALSE)
    /\ pc' = "returned"
    /\ UNCHANGED << metrics, stop_requested >>

\* except Exception at the message boundary (lines 867-869)
ExceptHandler ==
    /\ metrics' = [metrics EXCEPT !.emails_errored = @ + 1]
    /\ pc' = "loop"
    /\ UNCHANGED << result, stop_requested >>

ShouldSkipMutant(id) == FALSE

\* if self.mongo.email_exists(message_id) (line 701)
ShouldSkip(id) == email_exists(id)

\* steps 1-2: metadata extraction, then skip duplicates (lines 660-704).
\* The extraction reads the fetched payload only and issues no request.
Dedup ==
    /\ pc = "dedup"
    /\ IF ShouldSkip(message_id)
       THEN /\ metrics' = [metrics EXCEPT !.emails_skipped = @ + 1]
            /\ Left("skipped", calls)
            /\ pc' = "loop"
       ELSE /\ pc' = "classify"
            /\ UNCHANGED << metrics, handled >>
    /\ UNCHANGED << config, clientvars, componentvars, run_log, mailbox, mongo, loopvars, stop_requested, result,
                    locals, calls, started >>

CoerceLabelMutant(l) == l

\* if label not in ALLOWED_LABELS: label = "uncategorised" (lines 720-722)
CoerceLabel(l) ==
    IF l \in Range(ALLOWED_LABELS) THEN l ELSE "uncategorised"

\* step 3: classify (lines 706-735)
Classify ==
    /\ pc = "classify"
    /\ \E beh \in ClassifierBehaviours :
          LET classification_result == classify_email(beh) IN
          /\ calls' = calls \o classify_requests(beh)
          /\ IF classification_result.isDict
             THEN /\ label' = CoerceLabel(
                        DictGet(classification_result.dict, "label", "uncategorised"))
                  /\ confidence' = DictGet(classification_result.dict, "confidence", 0)
                  /\ metrics' = [metrics EXCEPT !.emails_classified = @ + 1]
             ELSE \* .get on a non-dict raises: except Exception (lines 728-733)
                  /\ label' = "uncategorised"
                  /\ confidence' = 0
                  /\ UNCHANGED metrics
    /\ pc' = "reply"
    /\ UNCHANGED << config, clientvars, componentvars, run_log, mailbox, mongo, loopvars, stop_requested, result,
                    message_id, reply_text, started, handled >>

StepAfterMutant(step) ==
    CASE step = "reply"   -> "move"
      [] step = "move"    -> "persist"
      [] step = "persist" -> "mark"

\* the order of the steps after the reply: insert (line 832), move (lines
\* 839-859), read/unread patch (lines 862-863)
StepAfter(step) ==
    CASE step = "reply"   -> "persist"
      [] step = "persist" -> "move"
      [] step = "move"    -> "mark"

\* step 4: generate a reply if needed (lines 737-753).  generate_reply
\* catches every exception itself, so the except branch of lines 750-753
\* is never entered.
Reply ==
    /\ pc = "reply"
    /\ IF label \in Range(RESPONSE_LABELS)
       THEN \E beh \in ReplyBehaviours :
               /\ reply_text' = generate_reply(label, beh)
               /\ calls' = calls \o reply_requests(label, beh)
       ELSE /\ reply_text' = ""
            /\ UNCHANGED calls
    /\ pc' = StepAfter("reply")
    /\ UNCHANGED << config, clientvars, componentvars, run_log, mailbox, mongo, loopvars, stop_requested, metrics,
                    result, message_id, label, confidence, started, handled >>

SaveAsDraftMutant(lbl) ==
    IF ~MAIL_SEND_ENABLED /\ FORCE_DRAFTS
    THEN TRUE
    ELSE lbl \in Range(REVIEW_LABELS)

\* step 5: flags for drafts / manual review (lines 756-760)
SaveAsDraft(lbl) ==
    IF ~MAIL_SEND_ENABLED \/ FORCE_DRAFTS
    THEN TRUE
    ELSE lbl \in Range(REVIEW_LABELS)

\* step 6: the document assembled for the store (lines 765-810)
EmailData ==
    [ message_id |-> message_id,
      classification |-> label,
      confidence |-> confidence,
      response |-> reply_text,
      save_as_draft |-> SaveAsDraft(label),
      batch_id |-> run ]

\* steps 5-7: flags, document, insert (lines 755-836)
Persist ==
    /\ pc = "persist"
    /\ \/ /\ mongo' = insert_email(EmailData)
          /\ calls' = Append(calls, Call("insert", message_id, label, "ok", NoId))
          /\ pc' = StepAfter("persist")
          /\ UNCHANGED << metrics, result, stop_requested, handled >>
       \/ /\ calls' = Append(calls, Call("insert", message_id, label, "fail", NoId))
          /\ ExceptHandler                 \* insert_email raises
          /\ Left("raised", calls')
          /\ UNCHANGED mongo
    /\ UNCHANGED << config, clientvars, componentvars, run_log, mailbox, loopvars, locals, started >>

\* what move_email_to_folder returns (lines 485-499)
MoveOutcomes == { "moved", "moved_no_id", "moved_empty_id", "http_error" }

\* new_id = result.get("id", "unknown") (line 488): the id of the answer, the
\* default when the answer has none, or the empty value the answer carries
move_email_to_folder(id, out) ==
    CASE out = "moved"          -> [success |-> TRUE, new_id |-> NewId(id)]
      [] out = "moved_no_id"    -> [success |-> TRUE, new_id |-> UnknownId]
      [] out = "moved_empty_id" -> [success |-> TRUE, new_id |-> NoId]
      [] OTHER                  -> [success |-> FALSE, new_id |-> NoId]

MoveTookEffectMutant(r) == TRUE

\* if move_success and new_id (line 848)
MoveTookEffect(r) == r.success /\ r.new_id # NoId

TrackedIdMutant(old_id, new_id) == old_id

\* message_id = new_id (line 851)
TrackedId(old_id, new_id) == new_id

\* step 8: move to folder (lines 838-859)
Move ==
    /\ pc = "move"
    /\ LET folder_id == DictGet(folder_mapping, label, NoFolder)
           old_id == message_id
       IN
       IF folder_id # NoFolder
       THEN \/ \E out \in MoveOutcomes :
                  LET r == move_email_to_folder(message_id, out) IN
                  /\ calls' = calls \o
                        << Call("token", NoId, "", "ok", NoId),
                           Call("move", message_id, folder_id,
                                IF r.success THEN "ok" ELSE "fail", r.new_id) >>
                  /\ mailbox' = IF r.success
                                THEN ServerMove(message_id, folder_id)
                                ELSE mailbox
                  /\ IF MoveTookEffect(r)
                     THEN /\ mongo' = update_message_id(old_id, r.new_id)
                          /\ message_id' = TrackedId(old_id, r.new_id)
                          /\ metrics' = [metrics EXCEPT !.emails_moved = @ + 1]
                     ELSE UNCHANGED << mongo, message_id, metrics >>
                  /\ pc' = StepAfter("move")
                  /\ UNCHANGED << result, stop_requested, handled >>
            \/ /\ calls' = Append(calls, Call("token", NoId, "", "fail", NoId))
               /\ ExceptHandler            \* get_access_token raises (line 478)
               /\ Left("raised", calls')
               /\ UNCHANGED << mailbox, mongo, message_id >>
       ELSE /\ pc' = StepAfter("move")
            /\ UNCHANGED << mailbox, mongo, message_id, metrics, calls, result,
                            stop_requested, handled >>
    /\ UNCHANGED << config, clientvars, componentvars, run_log, loopvars, label, confidence, reply_text, started >>

IsReadMutant(lbl) == TRUE

\* is_read = label not in ["manual_review", "uncategorised"] (line 862)
IsRead(lbl) == lbl \notin Range(REVIEW_LABELS)

\* step 9: mark read/unread, then count the message (lines 861-865)
Mark ==
    /\ pc = "mark"
    /\ \/ \E ok \in BOOLEAN :
             /\ calls' = calls \o
                   << Call("token", NoId, "", "ok", NoId),
                      Call("mark", message_id,
                           IF IsRead(label) THEN "read" ELSE "unread",
                           IF ok THEN "ok" ELSE "fail", NoId) >>
             /\ mailbox' = IF ok THEN ServerPatch(message_id, IsRead(label))
                           ELSE mailbox
             /\ metrics' = [metrics EXCEPT !.emails_processed = @ + 1]
             /\ Left("completed", calls')
             /\ pc' = "loop"
             /\ UNCHANGED << result, stop_requested >>
       \/ /\ calls' = Append(calls, Call("token", NoId, "", "fail", NoId))
          /\ ExceptHandler                 \* get_access_token raises (line 504)
          /\ Left("raised", calls')
          /\ UNCHANGED mailbox
    /\ UNCHANGED << config, clientvars, componentvars, run_log, mongo, loopvars, locals, started >>

\* step 5 of process_unread_emails: _sync_with_databases, which catches the
\* exceptions of the two stores (lines 871-889), then return (917-924)
Sync ==
    /\ pc = "sync"
    /\ \E res \in {"ok", "failed"} :
          run_log' = Append(run_log, RunCall("sync", res))
    /\ result' = Returned(TRUE)
    /\ pc' = "returned"
    /\ UNCHANGED << config, clientvars, componentvars, mailbox, mongo, loopvars, stop_requested, metrics,
                    locals, calls, started, handled >>

InRun == pc \notin {"idle", "returned"}

\* signal_handler of main (lines 971-973)
RequestStop ==
    /\ InRun
    /\ ~stop_requested
    /\ stop_requested' = TRUE
    /\ UNCHANGED << config, clientvars, componentvars, run_log, mailbox, mongo, loopvars, pc, metrics, result,
                    locals, calls, started, handled >>

\* except KeyboardInterrupt of process_unread_emails (lines 926-929)
Interrupt ==
    /\ InRun
    /\ stop_requested' = TRUE
    /\ result' = Returned(TRUE)
    /\ pc' = "returned"
    /\ UNCHANGED << config, clientvars, componentvars, run_log, mailbox, mongo, loopvars, metrics, locals, calls,
                    started, handled >>

Next ==
    \/ StartRun
    \/ EnsureFolders
    \/ FetchUnread
    \/ LoopExhausted
    \/ LoopBreak
    \/ StartMessage
    \/ Dedup
    \/ Classify
    \/ Reply
    \/ Persist
    \/ Move
    \/ Mark
    \/ Sync
    \/ RequestStop
    \/ Interrupt

Spec == Init /\ [][Next]_vars

\* ============================================================ MSGraphClient
\* get_access_token and retry_with_backoff, with the operations the decorator
\* is applied to.  Times are in seconds; backoff values are in hundredths of
\* a second and sleep times in units of 10^-5 s, so that the jitter factor
\* (1.0 + 0.1 * random.random()) is computed on integers.

MaxTicks   == 2   \* advances of the clock
MaxCalls   == 2   \* calls made on the client
MaxRetries == 3   \* largest max_retries the decorator is given

\* retry_with_backoff(max_retries=3, initial_backoff=1.5), line 93
DefaultMaxRetries == 3
DefaultInitialBackoff == 150

\* the safety margin of line 243 and the default lifetime of line 266
ExpiryMargin == 60
DefaultLifetime == 3600

TickLengths == {1, 60}

\* time.time() moves on
Tick ==
    /\ ticks < MaxTicks
    /\ ticks' = ticks + 1
    /\ \E d \in TickLengths : now' = now + d
    /\ UNCHANGED << componentvars, config, mailbox, mongo, loopvars, pc, stop_requested,
                    metrics, result, locals, calls, started, handled, run_log,
                    token_cache, issued, token_call, client_calls,
                    wrappervars >>

\* ---------------------------------------------------- get_access_token
\* what the identity provider answers to acquire_token_for_client
Lifetimes == {60, 61}

TokenResults(n) ==
    { [access_token |-> n, expires_in |-> e] : e \in Lifetimes }
    \cup { [access_token |-> n] }
    \cup { [error |-> "invalid_client"] }

\* the environment of one call: is the configuration complete
\* (validate_config), does the exchange raise, what does it answer
IdpBehaviours(n) ==
    { [config_ok |-> c, raises |-> r, result |-> [error |-> "none"]] :
          c \in BOOLEAN, r \in BOOLEAN }
    \cup { [config_ok |-> TRUE, raises |-> FALSE, result |-> res] :
               res \in TokenResults(n) }

CacheValidMutant(cache, t, force_refresh) ==
    /\ cache.token # 0
    /\ cache.expires_at > t + ExpiryMargin

\* the test of line 243
CacheValid(cache, t, force_refresh) ==
    /\ ~force_refresh
    /\ cache.token # 0
    /\ cache.expires_at > t + ExpiryMargin

\* get_access_token (lines 238-276): whether it raised, the token it
\* returned, the cache it left and the exchanges it made
get_access_token(cache, t, force_refresh, idp) ==
    IF CacheValid(cache, t, force_refresh)
    THEN [raised |-> FALSE, token |-> cache.token, cache |-> cache, exchanges |-> 0]
    ELSE IF ~idp.config_ok                       \* validate_config raises
    THEN [raised |-> TRUE, token |-> 0, cache |-> cache, exchanges |-> 0]
    ELSE IF idp.raises                           \* the exchange itself raises
    THEN [raised |-> TRUE, token |-> 0, cache |-> cache, exchanges |-> 1]
    ELSE IF "access_token" \in DOMAIN idp.result
    THEN [ raised |-> FALSE,
           token |-> idp.result.access_token,
           cache |-> [ token |-> idp.result.access_token,
                       expires_at |-> t + DictGet(idp.result, "expires_in",
                                                  DefaultLifetime) ],
           exchanges |-> 1 ]
    ELSE [raised |-> TRUE, token |-> 0, cache |-> cache, exchanges |-> 1]

ClientFree == wpc \in {"idle", "returned", "raised"}

\* a caller asks for a token (lines 288, 520)
GetToken ==
    /\ ClientFree
    /\ client_calls < MaxCalls
    /\ client_calls' = client_calls + 1
    /\ \E force_refresh \in BOOLEAN, idp \in IdpBehaviours(issued + 1) :
          LET r == get_access_token(token_cache, now, force_refresh, idp) IN
          /\ token_cache' = r.cache
          /\ issued' = IF r.cache # token_cache THEN issued + 1 ELSE issued
          /\ token_call' =
                [ force_refresh |-> force_refresh,
                  fresh |-> /\ token_cache.token # 0
                            /\ token_cache.expires_at > now + ExpiryMargin,
                  config_ok |-> idp.config_ok,
                  raised |-> r.raised,
                  token |-> r.token,
                  exchanges |-> r.exchanges,
                  before |-> token_cache,
                  after |-> r.cache,
                  at |-> now,
                  lifetime |-> DictGet(idp.result, "expires_in", DefaultLifetime) ]
    /\ UNCHANGED << componentvars, config, mailbox, mongo, loopvars, pc, stop_requested,
                    metrics, result, locals, calls, started, handled, run_log,
                    now, ticks, wrappervars >>

\* ---------------------------------------------------- retry_with_backoff
\* exceptions: the httpx classes the code names, and any other exception.
\* httpx.TimeoutException and httpx.ConnectError are subclasses of
\* httpx.RequestError; httpx.HTTPStatusError (raised by raise_for_status) is
\* not, and it is the only one that carries a response.
Statuses == {404, 408, 429, 503}

Errors ==
    { [type |-> t, status |-> 0] :
          t \in {"TimeoutException", "ConnectError", "Exception"} }
    \cup { [type |-> "HTTPStatusError", status |-> st] : st \in Statuses }

IsRequestErrorMutant(e) == TRUE

\* except httpx.RequestError as e (line 104)
IsRequestError(e) == e.type \in {"TimeoutException", "ConnectError"}

\* getattr(e.response, 'status_code', None) if hasattr(e, 'response')
\* else None (line 107); 0 stands for None
status_code(e) == IF e.type = "HTTPStatusError" THEN e.status ELSE 0

\* the test of line 110
ClientError(st) == st # 0 /\ 400 <= st /\ st < 500 /\ st \notin {429, 408}

PropagatesMutant(e) == e.type = "Exception"

\* the exception leaves the wrapper at once: it is not caught (line 104), or
\* it is caught and re-raised as a client error (lines 110-112)
Propagates(e) == ~IsRequestError(e) \/ ClientError(status_code(e))

LastAttemptMutant(a, n) == a = n

\* if attempt == max_retries - 1 (line 118)
LastAttempt(a, n) == a = n - 1

Jitters == {0, 99}

\* sleep_time = backoff * (1.0 + 0.1 * random.random()) (line 123), r being
\* random.random() in hundredths
sleep_time(b, r) == b * (1000 + r)

NextBackoffMutant(b) == b + b \div 2

\* backoff *= 2 (line 128)
NextBackoff(b) == b * 2

\* the operations the wrapper is applied to: the three decorated methods of
\* MSGraphClient (lines 419, 475, 501) and an operation that lets its errors
\* reach the wrapper
Decorated == {"fetch_unread_emails", "move_email_to_folder", "mark_email_read_status"}
Funcs == Decorated \cup {"operation"}

SuccessValue(f) ==
    CASE f = "fetch_unread_emails"    -> "emails"
      [] f = "move_email_to_folder"   -> "(True, new_id)"
      [] f = "mark_email_read_status" -> "True"
      [] OTHER                        -> "result"

\* what the except branches of the method return (lines 465-473, 491-499,
\* 514-516)
FailureValue(f) ==
    CASE f = "fetch_unread_emails"    -> "[]"
      [] f = "move_email_to_folder"   -> "(False, None)"
      [] OTHER                        -> "False"

HttpOutcomes == {NoError} \cup Errors

\* one call of func by the wrapper.  A decorated method acquires the token
\* outside its try block and issues its request inside it; every exception
\* of the request is caught there.
Invoke(f, cache, t, idp, http) ==
    IF f \in Decorated
    THEN LET tok == get_access_token(cache, t, FALSE, idp) IN
         IF tok.raised
         THEN [ raised |-> TRUE, error |-> [type |-> "Exception", status |-> 0],
                value |-> "", requested |-> FALSE, token_raised |-> TRUE,
                exchanges |-> tok.exchanges, cache |-> tok.cache ]
         ELSE [ raised |-> FALSE, error |-> http,
                value |-> IF http = NoError THEN SuccessValue(f)
                          ELSE FailureValue(f),
                requested |-> TRUE, token_raised |-> FALSE,
                exchanges |-> tok.exchanges, cache |-> tok.cache ]
    ELSE [ raised |-> http # NoError, error |-> http,
           value |-> IF http = NoError THEN SuccessValue(f) ELSE "",
           requested |-> TRUE, token_raised |-> FALSE,
           exchanges |-> 0, cache |-> cache ]

\* wrapper is entered (lines 97-99)
WrapperCall ==
    /\ ClientFree
    /\ client_calls < MaxCalls
    /\ client_calls' = client_calls + 1
    /\ \E f \in Funcs :
          /\ func' = f
          /\ \E n \in 1..MaxRetries, b \in {DefaultInitialBackoff, 100} :
                /\ f \in Decorated =>
                      (n = DefaultMaxRetries /\ b = DefaultInitialBackoff)
                /\ max_retries' = n
                /\ initial_backoff' = b
                /\ backoff' = b
    /\ attempt' = 0
    /\ last_exception' = NoError
    /\ outcome' = NoOutcome
    /\ invocations' = << >>
    /\ sleeps' = << >>
    /\ wpc' = "try"
    /\ UNCHANGED << componentvars, config, mailbox, mongo, loopvars, pc, stop_requested,
                    metrics, result, locals, calls, started, handled, run_log,
                    now, ticks, token_cache, issued, token_call >>

\* one iteration of for attempt in range(max_retries) (lines 101-128), and
\* the statements after the loop when it was the last one (lines 130-133)
Attempt ==
    /\ wpc = "try"
    /\ \E idp \in IdpBehaviours(issued + 1), http \in HttpOutcomes :
          LET r == Invoke(func, token_cache, now, idp, http) IN
          /\ (func \notin Decorated) =>
                idp = [config_ok |-> TRUE, raises |-> FALSE,
                       result |-> [error |-> "none"]]
          /\ token_cache' = r.cache
          /\ issued' = IF r.cache # token_cache THEN issued + 1 ELSE issued
          /\ invocations' = Append(invocations,
                [ raised |-> r.raised, error |-> r.error,
                  requested |-> r.requested, token_raised |-> r.token_raised,
                  exchanges |-> r.exchanges,
                  cache_kept |-> r.cache = token_cache ])
          /\ IF ~r.raised
             THEN /\ outcome' = [kind |-> "return", value |-> r.value,
                                 error |-> NoError]
                  /\ wpc' = "returned"
                  /\ UNCHANGED << last_exception, backoff, attempt, sleeps >>
             ELSE IF Propagates(r.error)
             THEN /\ last_exception' = IF IsRequestError(r.error)
                                       THEN r.error ELSE last_exception
                  /\ outcome' = [kind |-> "raise", value |-> "", error |-> r.error]
                  /\ wpc' = "raised"
                  /\ UNCHANGED << backoff, attempt, sleeps >>
             ELSE /\ last_exception' = r.error
                  /\ IF LastAttempt(attempt, max_retries)
                     THEN /\ outcome' = [kind |-> "raise", value |-> "",
                                         error |-> r.error]
                          /\ wpc' = "raised"
                          /\ UNCHANGED << backoff, attempt, sleeps >>
                     ELSE /\ \E j \in Jitters :
                                sleeps' = Append(sleeps, sleep_time(backoff, j))
                          /\ backoff' = NextBackoff(backoff)
                          /\ attempt' = attempt + 1
                          /\ IF attempt + 1 < max_retries
                             THEN /\ wpc' = "try"
                                  /\ UNCHANGED outcome
                             ELSE /\ outcome' = [kind |-> "raise", value |-> "",
                                                 error |-> r.error]
                                  /\ wpc' = "raised"
    /\ UNCHANGED << componentvars, config, mailbox, mongo, loopvars, pc, stop_requested,
                    metrics, result, locals, calls, started, handled, run_log,
                    now, ticks, token_call, client_calls, func, max_retries,
                    initial_backoff >>

\* the module as imported with its defaults (lines 47-48), no run started
ClientSpecInit ==
    /\ PipelineInit
    /\ ~MAIL_SEND_ENABLED
    /\ FORCE_DRAFTS
    /\ ClientInit
    /\ ComponentsIdle

\* get_access_token called directly while time passes
TokenNext ==
    \/ Tick
    \/ GetToken

TokenSpec == ClientSpecInit /\ [][TokenNext]_vars

\* calls of the wrapped operations, each acquiring its token itself, while
\* time passes
RetryNext ==
    \/ Tick
    \/ WrapperCall
    \/ Attempt

RetrySpec == ClientSpecInit /\ [][RetryNext]_vars

\* ======================================================= get_all_pages
MaxPages == 3
MaxPageSize == 2
MaxItems == 5

MaxLinked == 2   \* pages of a chain whose next links point anywhere

\* the walk is followed for MaxCount items, and its log of requests keeps
\* the first MaxRequests of them
MaxCount == MaxPages * MaxPageSize + 1
MaxRequests == MaxPages + 1

\* a url that is None, a max_items that is None: both are falsy (line 296)
NoUrl == 0
NoLimit == 0

\* a or b
Or(a, b) == IF a # 0 THEN a ELSE b

\* what the source answers to the request of one page: a page with a
\* "value" array, a JSON object without "value", an HTTP error status, a
\* transport error, or a body that is not JSON
FailKinds == { "http_status", "network", "not_json" }
PageKinds == { "ok", "no_value" } \cup FailKinds

PageShapes ==
    [ kind : {"ok"}, size : 0..MaxPageSize ]
    \cup [ kind : PageKinds \ {"ok"}, size : {0} ]

RECURSIVE Offset(_, _)
Offset(sh, k) == IF k <= 1 THEN 0 ELSE Offset(sh, k - 1) + sh[k - 1].size

\* the pages of a collection whose items are numbered in source order; the
\* url of page k is k, every page but the last carries a next link
ChainOf(sh) ==
    [ k \in 1..Len(sh) |->
        [ kind  |-> sh[k].kind,
          value |-> [ i \in 1..sh[k].size |-> Offset(sh, k) + i ],
          next  |-> IF k < Len(sh) THEN k + 1 ELSE NoUrl ] ]

Chains ==
    { ChainOf(sh) : sh \in UNION { [1..n -> PageShapes] : n \in 1..MaxPages } }

\* pages whose "@odata.nextLink" is whatever the source puts there: none,
\* a later page, the page itself or an earlier page
LinkedChains(n) ==
    { [ k \in 1..n |->
          [ kind  |-> sh[k].kind,
            value |-> [ i \in 1..sh[k].size |-> Offset(sh, k) + i ],
            next  |-> nx[k] ] ] :
        sh \in [1..n -> PageShapes], nx \in [1..n -> 0..n] }

\* the batch sizes an instance is built with (lines 44, 227-235)
BatchSizes == { 0, 2, BATCH_SIZE }

\* get_all_pages(url, params, max_items) is called: a generator is made,
\* none of its body has run
PageInputs ==
    /\ chain \in Chains
    /\ max_items \in {NoLimit} \cup 1..MaxItems
    /\ batch_size \in (IF max_items = NoLimit THEN BatchSizes ELSE {BATCH_SIZE})
    /\ gpc = "created"
    /\ full_url = 1
    /\ count = 0
    /\ item_pos = 0
    /\ yielded = << >>
    /\ requests = << >>

\* the first next() runs the body up to the loop: the token is acquired
\* outside the try block (line 288), the bound is fixed (line 296)
WalkStart ==
    /\ gpc = "created"
    /\ \E token_ok \in BOOLEAN :
          IF token_ok
          THEN /\ max_items' = Or(max_items, batch_size)
               /\ gpc' = "request"
          ELSE /\ gpc' = "raised"
               /\ UNCHANGED max_items
    /\ UNCHANGED << pipelinevars, clientvars, normvars, foldervars, chain, batch_size, full_url,
                    count, item_pos, yielded, requests >>

page_raisesMutant(kind) == kind \in { "http_status", "network" }

\* httpx.get, raise_for_status, r.json() raise (lines 301-303)
page_raises(kind) == kind \in FailKinds

\* data.get("value", []) (line 304)
PageValue(page) == IF page.kind = "ok" THEN page.value ELSE << >>

\* while full_url: request the page; every exception breaks out of the
\* loop (lines 298-303, 312-322)
RequestPage ==
    /\ gpc = "request"
    /\ requests' = IF Len(requests) < MaxRequests
                   THEN Append(requests, full_url)
                   ELSE requests
    /\ item_pos' = 0
    /\ gpc' = IF page_raises(chain[full_url].kind) THEN "done" ELSE "items"
    /\ UNCHANGED << pipelinevars, clientvars, normvars, foldervars, chain, max_items, batch_size,
                    full_url, count, yielded >>

LimitReachedMutant(limit, n) == limit # 0 /\ n > limit

\* if max_items and count >= max_items (line 309)
LimitReached(limit, n) == limit # 0 /\ n >= limit

\* for item in data.get("value", []): yield item, count it, return when the
\* bound is reached (lines 304-310)
YieldItem ==
    /\ gpc = "items"
    /\ item_pos < Len(PageValue(chain[full_url]))
    /\ count < MaxCount
    /\ item_pos' = item_pos + 1
    /\ yielded' = Append(yielded, PageValue(chain[full_url])[item_pos + 1])
    /\ count' = count + 1
    /\ gpc' = IF LimitReached(max_items, count') THEN "done" ELSE "items"
    /\ UNCHANGED << pipelinevars, clientvars, normvars, foldervars, chain, max_items, batch_size,
                    full_url, requests >>

\* the page is used up: full_url = data.get("@odata.nextLink") (line 311)
FollowNext ==
    /\ gpc = "items"
    /\ item_pos = Len(PageValue(chain[full_url]))
    /\ full_url' = chain[full_url].next
    /\ gpc' = IF full_url' # NoUrl THEN "request" ELSE "done"
    /\ UNCHANGED << pipelinevars, clientvars, normvars, foldervars, chain, max_items, batch_size,
                    count, item_pos, yielded, requests >>

PageSpecInit ==
    /\ PipelineInit
    /\ ~MAIL_SEND_ENABLED
    /\ FORCE_DRAFTS
    /\ ClientInit
    /\ NormIdle
    /\ FolderIdle
    /\ PageInputs

PageNext ==
    \/ WalkStart
    \/ RequestPage
    \/ YieldItem
    \/ FollowNext

PageSpec == PageSpecInit /\ [][PageNext]_vars

\* the walk over chains with arbitrary next links.  The callers consume the
\* generator with list() (lines 456, 552, 572), so the body keeps running
\* until the generator ends.
WalkSpecInit ==
    /\ PipelineInit
    /\ ~MAIL_SEND_ENABLED
    /\ FORCE_DRAFTS
    /\ ClientInit
    /\ NormIdle
    /\ FolderIdle
    /\ \E n \in 1..MaxLinked : chain \in LinkedChains(n)
    /\ max_items \in {NoLimit} \cup 1..MaxItems
    /\ batch_size \in (IF max_items = NoLimit THEN BatchSizes ELSE {BATCH_SIZE})
    /\ gpc = "created"
    /\ full_url = 1
    /\ count = 0
    /\ item_pos = 0
    /\ yielded = << >>
    /\ requests = << >>

WalkSpec == WalkSpecInit /\ [][PageNext]_vars /\ WF_vars(PageNext)

\* ================================== _extract_clean_email_content
\* A str is a sequence of one-character strings.
MaxLen == 2

\* longer contents: the lengths 5, 6, 7, markup, entities, line ends
Samples ==
    { << "a", "a", "a", "a", "a" >>,
      << "a", "a", "a", "a", "a", "a" >>,
      << "a", "a", "a", "a", "a", "a", "a" >>,
      << "<", "p", ">", "a", "<", "/", "p", ">" >>,
      << "<", "p", ">", "<", "/", "p", ">" >>,
      << "a", "&", "a", "m", "p", ";", "b" >>,
      << "a", "\r", "\n", "\r", "\n", "b", " ", " ", "c" >>,
      << " ", "<", "b", "r", ">", " " >>,
      << "<", ">", "a" >>,
      << "a", ">" >> }

\* contents the mail service delivers: every string over three characters
\* up to MaxLen, and the samples
Contents ==
    UNION { [1..n -> { "a", " ", "<" }] : n \in 0..MaxLen } \cup Samples

\* an itemBody: {} / no key, content with contentType, content alone
Bodies ==
    { << >> }
    \cup { [content |-> c, contentType |-> t] :
               c \in Contents, t \in { "text", "html", "HTML" } }
    \cup { [content |-> c] : c \in Contents }

Messages ==
    { [uniqueBody |-> u, body |-> b, bodyPreview |-> pv] :
          u \in Bodies, b \in Bodies,
          pv \in { << >>, << "a" >>, << " ", "a", " " >> } }

\* whitespace of str.strip() and of \s
IsSpace(c) == c \in { " ", "\t", "\n", "\r" }

RECURSIVE lstrip(_)
lstrip(s) == IF s # << >> /\ IsSpace(Head(s)) THEN lstrip(Tail(s)) ELSE s

RECURSIVE rstrip(_)
rstrip(s) ==
    IF s # << >> /\ IsSpace(s[Len(s)])
    THEN rstrip(SubSeq(s, 1, Len(s) - 1))
    ELSE s

\* str.strip()
strip(s) == rstrip(lstrip(s))

\* str.lower() on the content types
Lower(t) == IF t = "HTML" THEN "html" ELSE t

\* the first index >= from at which c stands in s, 0 when there is none
FirstIndex(s, c, from) ==
    IF \E j \in from..Len(s) : s[j] = c
    THEN CHOOSE j \in from..Len(s) :
            s[j] = c /\ \A i \in from..(j - 1) : s[i] # c
    ELSE 0

\* re.sub(r'<[^>]+>', '', s): a "<", at least one character other than
\* ">", and the first ">" after them
RECURSIVE remove_tags(_)
remove_tags(s) ==
    IF s = << >> THEN << >>
    ELSE IF Head(s) = "<" /\ FirstIndex(s, ">", 2) >= 3
    THEN remove_tags(SubSeq(s, FirstIndex(s, ">", 2) + 1, Len(s)))
    ELSE << Head(s) >> \o remove_tags(Tail(s))

\* str.replace(old, new)
RECURSIVE replace(_, _, _)
replace(s, old, new) ==
    IF s = << >> THEN << >>
    ELSE IF Len(old) <= Len(s) /\ SubSeq(s, 1, Len(old)) = old
    THEN new \o replace(SubSeq(s, Len(old) + 1, Len(s)), old, new)
    ELSE << Head(s) >> \o replace(Tail(s), old, new)

\* the dict html_entities, in insertion order (lines 334-344)
html_entities ==
    << << << "&", "n", "b", "s", "p", ";" >>, << " " >> >>,
       << << "&", "a", "m", "p", ";" >>, << "&" >> >>,
       << << "&", "l", "t", ";" >>, << "<" >> >>,
       << << "&", "g", "t", ";" >>, << ">" >> >>,
       << << "&", "q", "u", "o", "t", ";" >>, << "\"" >> >>,
       << << "&", "#", "3", "9", ";" >>, << "'" >> >>,
       << << "&", "a", "p", "o", "s", ";" >>, << "'" >> >>,
       << << "\r", "\n" >>, << "\n" >> >>,
       << << "\r" >>, << "\n" >> >> >>

\* for entity, replacement in html_entities.items(): text.replace (345-346)
RECURSIVE replace_entities(_, _)
replace_entities(text, k) ==
    IF k = 0 THEN text
    ELSE replace(replace_entities(text, k - 1),
                 html_entities[k][1], html_entities[k][2])

\* the length of the longest prefix of s made of characters of set
RECURSIVE RunLength(_, _)
RunLength(s, set) ==
    IF s # << >> /\ Head(s) \in set THEN 1 + RunLength(Tail(s), set) ELSE 0

\* re.sub(r'\n\s*\n', '\n\n', s): a line end, the whitespace after it up
\* to the last line end of that whitespace
RECURSIVE collapse_newlines(_)
collapse_newlines(s) ==
    IF s = << >> THEN << >>
    ELSE LET span == RunLength(Tail(s), { " ", "\t", "\n", "\r" })
             ends == { j \in 2..(span + 1) : s[j] = "\n" }
         IN
         IF Head(s) = "\n" /\ ends # {}
         THEN << "\n", "\n" >>
                 \o collapse_newlines(SubSeq(s, Max(ends) + 1, Len(s)))
         ELSE << Head(s) >> \o collapse_newlines(Tail(s))

\* re.sub(r'[ \t]+', ' ', s)
RECURSIVE collapse_spaces(_)
collapse_spaces(s) ==
    IF s = << >> THEN << >>
    ELSE IF Head(s) \in { " ", "\t" }
    THEN << " " >>
            \o collapse_spaces(SubSeq(s, RunLength(s, { " ", "\t" }) + 1, Len(s)))
    ELSE << Head(s) >> \o collapse_spaces(Tail(s))

\* _html_to_text (lines 324-357); on a str none of its steps raises
_html_to_text(html_content) ==
    IF html_content = << >> THEN << >>
    ELSE strip(collapse_spaces(collapse_newlines(
             replace_entities(remove_tags(html_content), Len(html_entities)))))

\* b and b.get("content"): a dict that is not empty with a content that is
\* not empty (lines 371, 380, 395)
HasContent(b) == b # << >> /\ DictGet(b, "content", << >>) # << >>

ThreadTestMutant(U, F) == U > 0 /\ F > U

\* len(unique_content) > 0 and len(full_content) > len(unique_content) * 1.2
\* (line 376); the product of an int and the float 1.2 compares with an int
\* as 6 * U / 5 does
ThreadTest(U, F) == U > 0 /\ 5 * F > 6 * U

NotCleanMutant(text) == FALSE

\* if not clean_body (lines 394, 409)
NotClean(text) == text = << >>

\* the two branches on the content type of a body, which assign clean_body
\* and data_source or leave both as they are (lines 381-391, 396-406)
FromBody(b, text_tag, html_tag, prev) ==
    LET content == strip(DictGet(b, "content", << >>))
        content_type == Lower(DictGet(b, "contentType", ""))
    IN
    IF content_type = "text"
    THEN [clean_body |-> content, data_source |-> text_tag]
    ELSE IF content_type = "html" /\ content # << >>
    THEN [clean_body |-> _html_to_text(content), data_source |-> html_tag]
    ELSE prev

\* _extract_clean_email_content (lines 359-413).  On a message whose
\* contents and types are strings nothing raises, so the except branch of
\* lines 415-417 is not entered.
_extract_clean_email_content(m) ==
    LET unique_body == DictGet(m, "uniqueBody", << >>)
        full_body == DictGet(m, "body", << >>)
        had_threads ==
            /\ HasContent(unique_body)
            /\ HasContent(full_body)
            /\ ThreadTest(Len(strip(unique_body.content)),
                          Len(strip(full_body.content)))
        start == [clean_body |-> << >>, data_source |-> ""]
        step1 == IF HasContent(unique_body)
                 THEN FromBody(unique_body, "uniqueBody_text",
                               "uniqueBody_html_converted", start)
                 ELSE start
        step2 == IF NotClean(step1.clean_body) /\ HasContent(full_body)
                 THEN FromBody(full_body, "body_text", "body_html_converted",
                               step1)
                 ELSE step1
        step3 == IF NotClean(step2.clean_body)
                 THEN [clean_body |-> strip(DictGet(m, "bodyPreview", << >>)),
                       data_source |-> "bodyPreview_fallback"]
                 ELSE step2
    IN [ clean_body |-> step3.clean_body,
         data_source |-> step3.data_source,
         had_threads |-> had_threads ]

\* _process_single_email hands the message to the normalizer (line 672)
Extract ==
    /\ msg # << >>
    /\ extraction = << >>
    /\ extraction' = _extract_clean_email_content(msg)
    /\ UNCHANGED << pipelinevars, clientvars, pagevars, foldervars, msg >>

NormSpecInit ==
    /\ PipelineInit
    /\ ~MAIL_SEND_ENABLED
    /\ FORCE_DRAFTS
    /\ ClientInit
    /\ PageIdle
    /\ FolderIdle
    /\ msg \in Messages
    /\ extraction = << >>

NormSpec == NormSpecInit /\ [][Extract]_vars

\* ================================= ensure_classification_folders
MaxLabels == 2
MaxReconciliations == 2

\* the root of the mailbox as a parent; also: no such folder
NoFolderId == 0

\* for label in ALLOWED_LABELS, over the first MaxLabels labels
FolderLabels == SubSeq(ALLOWED_LABELS, 1, MaxLabels)

\* label.replace("_", " ").title() (line 577)
display(l) ==
    CASE l = "no_reply_no_info" -> "No Reply No Info"
      [] l = "no_reply_with_info" -> "No Reply With Info"
      [] l = "auto_reply_no_info" -> "Auto Reply No Info"
      [] l = "auto_reply_with_info" -> "Auto Reply With Info"
      [] l = "invoice_request_no_info" -> "Invoice Request No Info"
      [] l = "claims_paid_no_proof" -> "Claims Paid No Proof"
      [] l = "claims_paid_with_proof" -> "Claims Paid With Proof"
      [] l = "manual_review" -> "Manual Review"
      [] l = "uncategorised" -> "Uncategorised"

\* normalize (lines 530-531) on the folder names of the model:
\* ''.join(c for c in s.lower() if c.isalnum())
normalize(name) ==
    CASE name = "Email Classification" -> "emailclassification"
      [] name = "email-classification" -> "emailclassification"
      [] name = "Archive" -> "archive"
      [] name = "No Reply No Info" -> "noreplynoinfo"
      [] name = "No Reply With Info" -> "noreplywithinfo"
      [] name = "Auto Reply No Info" -> "autoreplynoinfo"
      [] name = "Auto Reply With Info" -> "autoreplywithinfo"
      [] name = "Invoice Request No Info" -> "invoicerequestnoinfo"
      [] name = "Claims Paid No Proof" -> "claimspaidnoproof"
      [] name = "Claims Paid With Proof" -> "claimspaidwithproof"
      [] name = "Manual Review" -> "manualreview"
      [] name = "Uncategorised" -> "uncategorised"
      [] name = "no_reply_no_info" -> "noreplynoinfo"
      [] name = "no_reply_with_info" -> "noreplywithinfo"
      [] name = "auto_reply_no_info" -> "autoreplynoinfo"
      [] name = "auto_reply_with_info" -> "autoreplywithinfo"
      [] name = "invoice_request_no_info" -> "invoicerequestnoinfo"
      [] name = "claims_paid_no_proof" -> "claimspaidnoproof"
      [] name = "claims_paid_with_proof" -> "claimspaidwithproof"
      [] name = "manual_review" -> "manualreview"
      [] name = "uncategorised" -> "uncategorised"

\* where the folder of a label is before the first call: nowhere, under
\* the parent (by its display name or by another name with the same
\* normalized form), at the top level, under another folder, or both at
\* the top level and under the parent
Placements ==
    { "absent", "child", "child_renamed", "top", "nested", "child_and_top" }

\* the folders of a mailbox with an archive folder (id 1), the parent
\* folder named pname unless pname is "" (id 2), and a folder for each
\* label placed as pl says; ids are given in this order
RECURSIVE TreeOf(_, _, _)
TreeOf(pname, pl, n) ==
    IF n = 0
    THEN << [displayName |-> "Archive", parent |-> NoFolderId] >>
         \o (IF pname = "" THEN << >>
             ELSE << [displayName |-> pname, parent |-> NoFolderId] >>)
    ELSE LET t == TreeOf(pname, pl, n - 1)
             l == FolderLabels[n]
         IN CASE pl[n] = "child" ->
                   Append(t, [displayName |-> display(l), parent |-> 2])
              [] pl[n] = "child_renamed" ->
                   Append(t, [displayName |-> l, parent |-> 2])
              [] pl[n] = "top" ->
                   Append(t, [displayName |-> display(l), parent |-> NoFolderId])
              [] pl[n] = "nested" ->
                   Append(t, [displayName |-> display(l), parent |-> 1])
              [] pl[n] = "child_and_top" ->
                   t \o << [displayName |-> display(l), parent |-> NoFolderId],
                           [displayName |-> display(l), parent |-> 2] >>
              [] OTHER -> t

InitialTrees ==
    { TreeOf(pname, pl, MaxLabels) :
        pname \in { "Email Classification", "email-classification" },
        pl \in [1..MaxLabels -> Placements] }
    \cup
    { TreeOf("", pl, MaxLabels) :
        pl \in [1..MaxLabels -> { "absent", "top", "nested" }] }

\* the ids of the direct children of a folder, which a listing gives in
\* ascending order
ChildrenOf(t, p) == { i \in 1..Len(t) : t[i].parent = p }

LookupOfMutant(t, ids) ==
    [ k \in { t[i].displayName : i \in ids } |->
        Max({ i \in ids : t[i].displayName = k }) ]

\* {normalize(f["displayName"]): f["id"] for f in listing}: of two folders
\* with one key the later one stays (lines 555, 573)
LookupOf(t, ids) ==
    [ k \in { normalize(t[i].displayName) : i \in ids } |->
        Max({ i \in ids : normalize(t[i].displayName) = k }) ]

graph_searchMutant(t, name) == NoFolderId

\* graph_search (lines 533-543): the first folder of the mailbox whose
\* display name is name, NoFolderId for None
graph_search(t, name) ==
    IF \E i \in 1..Len(t) : t[i].displayName = name
    THEN CHOOSE i \in 1..Len(t) :
            /\ t[i].displayName = name
            /\ \A j \in 1..(i - 1) : t[j].displayName # name
    ELSE NoFolderId

GraphCall(l, op, res, id) ==
    [ call |-> Len(returns) + 1, label |-> l, op |-> op, res |-> res, id |-> id ]

Returns(raised, map) == Append(returns, [raised |-> raised, map |-> map])

\* list(self.get_all_pages(url=child_url)) (line 572): max_items is not
\* given, so the walk yields batch_size items at most (line 296), all of
\* them when batch_size is 0
ListingBound(n) ==
    IF Or(NoLimit, batch_size) # NoLimit /\ Or(NoLimit, batch_size) < n
    THEN Or(NoLimit, batch_size)
    ELSE n

\* ensure_classification_folders up to the loop over the labels (lines
\* 520-573): token, listing of the top-level folders, parent found or
\* created, children listed through get_all_pages, which gives the first
\* batch_size of them or, after a failed page, fewer
FolderStart ==
    /\ fpc \in { "idle", "returned" }
    /\ Len(returns) < MaxReconciliations
    /\ label_pos' = 0
    /\ folder_map' = << >>
    /\ \/ \* get_access_token raises (line 520, outside the try block)
          /\ graph_log' = Append(graph_log, GraphCall("", "token", "fail", NoFolderId))
          /\ returns' = Returns(TRUE, << >>)
          /\ fpc' = "returned"
          /\ UNCHANGED << tree, parent_id, child_lookup >>
       \/ \* the listing fails (lines 552-554)
          /\ graph_log' = Append(graph_log, GraphCall("", "list", "fail", NoFolderId))
          /\ returns' = Returns(FALSE, << >>)
          /\ fpc' = "returned"
          /\ UNCHANGED << tree, parent_id, child_lookup >>
       \/ LET lookup == LookupOf(tree, ChildrenOf(tree, NoFolderId))
              found == DictGet(lookup, normalize("Email Classification"), NoFolderId)
              listed == GraphCall("", "list", "ok", NoFolderId)
          IN
          IF found = NoFolderId
          THEN \/ \* the parent is created (lines 560-565)
                  /\ tree' = Append(tree, [displayName |-> "Email Classification",
                                          parent |-> NoFolderId])
                  /\ parent_id' = Len(tree')
                  /\ \E ok \in BOOLEAN :
                        /\ graph_log' = graph_log \o
                              << listed,
                                 GraphCall("", "create_parent", "created", parent_id'),
                                 GraphCall("", "children",
                                           IF ok THEN "ok" ELSE "cut", parent_id') >>
                  /\ child_lookup' = << >>
                  /\ fpc' = "labels"
                  /\ UNCHANGED returns
               \/ \* the creation of the parent fails (line 564)
                  /\ graph_log' = graph_log \o
                        << listed,
                           GraphCall("", "create_parent", "fail", NoFolderId) >>
                  /\ returns' = Returns(FALSE, << >>)
                  /\ fpc' = "returned"
                  /\ UNCHANGED << tree, parent_id, child_lookup >>
          ELSE \/ \E n \in 0..ListingBound(Cardinality(ChildrenOf(tree, found))) :
                     LET all == ChildrenOf(tree, found)
                         seen == { i \in all :
                                     Cardinality({ j \in all : j <= i }) <= n }
                     IN
                     /\ parent_id' = found
                     /\ child_lookup' = LookupOf(tree, seen)
                     /\ graph_log' = graph_log \o
                           << listed,
                              GraphCall("", "children",
                                        IF seen = all THEN "ok" ELSE "cut", found) >>
                     /\ fpc' = "labels"
                     /\ UNCHANGED << tree, returns >>
               \/ \* get_access_token raises inside get_all_pages (line 288)
                  /\ graph_log' = graph_log \o
                        << listed, GraphCall("", "children", "fail", found) >>
                  /\ returns' = Returns(FALSE, << >>)
                  /\ fpc' = "returned"
                  /\ UNCHANGED << tree, parent_id, child_lookup >>
    /\ UNCHANGED << pipelinevars, clientvars, pagevars, normvars >>

move_to_parentMutant(t, folder_id, new_parent_id) == t

\* move_to_parent (lines 545-548), as the mail service carries it out
move_to_parent(t, folder_id, new_parent_id) ==
    [t EXCEPT ![folder_id].parent = new_parent_id]

\* the mail service keeps the display names of the children of one folder
\* distinct: a request that would give new_parent_id a second child named
\* name is answered with an error (the 409 of line 592)
NameTaken(t, new_parent_id, name, folder_id) ==
    \E i \in ChildrenOf(t, new_parent_id) :
        i # folder_id /\ t[i].displayName = name

\* the requests of the loop body that are not inside the inner try block:
\* their exception reaches the except clause of lines 615-617
AbortsOn(op) == op \in { "search", "move" }

\* one pass of the loop over the labels (lines 576-610)
ResolveLabel ==
    /\ fpc = "labels"
    /\ label_pos < MaxLabels
    /\ LET l == FolderLabels[label_pos + 1]
           name == display(l)
           folder_id == DictGet(child_lookup, normalize(name), NoFolderId)
           ghost == graph_search(tree, name)
           Log(ops) == graph_log \o ops
           Mapped(id) == [ x \in DOMAIN folder_map \cup {l} |->
                             IF x = l THEN id ELSE folder_map[x] ]
           Goes(map, t, ops) ==
               /\ folder_map' = map
               /\ tree' = t
               /\ graph_log' = Log(ops)
               /\ label_pos' = label_pos + 1
               /\ UNCHANGED << fpc, returns >>
           Fails(op, ops) ==
               IF AbortsOn(op)
               THEN /\ graph_log' = Log(ops)
                    /\ returns' = Returns(FALSE, << >>)
                    /\ fpc' = "returned"
                    /\ UNCHANGED << tree, folder_map, label_pos >>
               ELSE Goes(folder_map, tree, ops)
       IN
       IF folder_id # NoFolderId
       THEN Goes(Mapped(folder_id), tree, << >>)
       ELSE \/ Fails("search", << GraphCall(l, "search", "fail", NoFolderId) >>)
            \/ /\ ghost # NoFolderId
               /\ \/ /\ ~NameTaken(tree, parent_id, name, ghost)
                     /\ Goes(Mapped(ghost),
                             move_to_parent(tree, ghost, parent_id),
                             << GraphCall(l, "search", "found", ghost),
                                GraphCall(l, "move", "ok", ghost) >>)
                  \/ Fails("move",
                           << GraphCall(l, "search", "found", ghost),
                              GraphCall(l, "move", "fail", ghost) >>)
            \/ /\ ghost = NoFolderId
               /\ LET searched == GraphCall(l, "search", "none", NoFolderId)
                      made == Append(tree, [displayName |-> name,
                                            parent |-> parent_id])
                  IN
                  \/ \* created (lines 601-603)
                     Goes(Mapped(Len(made)), made,
                          << searched, GraphCall(l, "create", "created", Len(made)) >>)
                  \/ \* the request fails (lines 601, 605-607)
                     Fails("create",
                           << searched, GraphCall(l, "create", "fail", NoFolderId) >>)
                  \/ \* 409: another client has made the folder meanwhile;
                     \* the search finds it, finds nothing, or fails
                     \* (lines 592-599)
                     \/ Goes(Mapped(graph_search(made, name)), made,
                             << searched,
                                GraphCall(l, "create", "conflict", NoFolderId),
                                GraphCall(l, "search", "found",
                                          graph_search(made, name)) >>)
                     \/ \E res \in { "none", "fail" } :
                           Goes(folder_map, made,
                                << searched,
                                   GraphCall(l, "create", "conflict", NoFolderId),
                                   GraphCall(l, "search", res, NoFolderId) >>)
    /\ UNCHANGED << pipelinevars, clientvars, pagevars, normvars, parent_id,
                    child_lookup >>

\* return folder_map (lines 612-613)
FolderReturn ==
    /\ fpc = "labels"
    /\ label_pos = MaxLabels
    /\ returns' = Returns(FALSE, folder_map)
    /\ fpc' = "returned"
    /\ UNCHANGED << pipelinevars, clientvars, pagevars, normvars, tree,
                    parent_id, child_lookup, label_pos, folder_map, graph_log >>

\* the client is built with the BATCH_SIZE of the environment (lines 44,
\* 227-235); no walk of the page model is under way
FolderSpecInit ==
    /\ PipelineInit
    /\ ~MAIL_SEND_ENABLED
    /\ FORCE_DRAFTS
    /\ ClientInit
    /\ chain = << >>
    /\ max_items = 0
    /\ batch_size \in { 1, BATCH_SIZE }
    /\ gpc = "none"
    /\ full_url = 0
    /\ count = 0
    /\ item_pos = 0
    /\ yielded = << >>
    /\ requests = << >>
    /\ NormIdle
    /\ tree \in InitialTrees
    /\ fpc = "idle"
    /\ parent_id = NoFolderId
    /\ child_lookup = << >>
    /\ label_pos = 0
    /\ folder_map = << >>
    /\ graph_log = << >>
    /\ returns = << >>

FolderNext ==
    \/ FolderStart
    \/ ResolveLabel
    \/ FolderReturn

FolderSpec == FolderSpecInit /\ [][FolderNext]_vars

\* ============================================================= claims
\* the message the loop took last has left _process_single_email
Finished == idx > 0 /\ Len(handled) = idx

\* the message the loop took last is still inside _process_single_email
Handling == pc \in {"dedup", "classify", "reply", "persist", "move", "mark"}

CallsOf(op) == { i \in 1..Len(calls) : calls[i].op = op }

RecordsOf(id) == { i \in 1..Len(mongo) : mongo[i].message_id = id }

\* an exception left the current message only through a failed insert or a
\* failed token acquisition
RaisedOnlyByStoreOrToken ==
    (Finished /\ handled[idx].exit = "raised") =>
        /\ calls # << >>
        /\ Last(calls).op \in {"insert", "token"}
        /\ Last(calls).res = "fail"

\* C1: a fetched message whose id already has a persisted record is skipped:
\* it never goes past the dedup check, no request of any kind is issued for
\* it, the store keeps exactly one record for its id, and once it was handled
\* it was counted as skipped.
C1_SkipPersisted ==
    /\ \A id \in MsgIds : Cardinality(RecordsOf(id)) <= 1
    /\ (idx > 0 /\ Len(started) = idx /\ started[idx].known) =>
          /\ pc \in {"dedup", "loop", "sync", "returned"}
          /\ calls = << >>
          /\ Cardinality(RecordsOf(started[idx].id)) = 1
          /\ mailbox[started[idx].id].id = started[idx].id
          /\ Finished => handled[idx].exit = "skipped"

C1_Witness ==
    /\ run = 2
    /\ Finished
    /\ started[idx].known
    /\ handled[idx].exit = "skipped"
    /\ metrics.emails_skipped = 1
    /\ Cardinality(RecordsOf(started[idx].id)) = 1

\* C2: after a successful move that returned an id, the record of the message
\* is tracked under the returned id and no longer under the old one, the
\* pipeline's own message_id is the returned id, and every later move or
\* read/unread request of the message is addressed to the returned id.
C2_NewIdAfterMove ==
    \A i \in CallsOf("move") :
        (calls[i].res = "ok" /\ calls[i].ret # NoId) =>
            /\ RecordsOf(calls[i].ret) # {}
            /\ RecordsOf(calls[i].id) = {}
            /\ Handling => message_id = calls[i].ret
            /\ \A j \in CallsOf("mark") \cup CallsOf("move") :
                  j > i => calls[j].id = calls[i].ret

C2_Witness ==
    /\ Finished
    /\ handled[idx].exit = "completed"
    /\ \E i \in CallsOf("move"), j \in CallsOf("mark") :
          /\ calls[i].res = "ok"
          /\ calls[i].id = emails[idx]
          /\ calls[i].ret = NewId(emails[idx])
          /\ j > i
          /\ calls[j].id = NewId(emails[idx])
    /\ RecordsOf(NewId(emails[idx])) # {}

Ids(s) == [ i \in 1..Len(s) |-> s[i].id ]

Raised == { i \in 1..Len(handled) : handled[i].exit = "raised" }

\* C3: messages are taken one at a time in fetch order; every exception that
\* leaves a message is counted once in emails_errored; and a run that was not
\* stopped has started every fetched message exactly once, whatever failed.
C3_ErrorsIsolated ==
    /\ Len(started) = idx
    /\ idx <= Len(emails)
    /\ Ids(started) = SubSeq(emails, 1, idx)
    /\ Len(handled) \in {idx - 1, idx} \cap Nat
    /\ Ids(handled) = SubSeq(emails, 1, Len(handled))
    /\ metrics.emails_errored = Cardinality(Raised)
    /\ (pc = "returned" /\ ~stop_requested /\ emails # << >>) =>
          /\ Ids(started) = emails
          /\ Len(handled) = Len(emails)
          /\ result.success

C3_Witness ==
    /\ pc = "returned"
    /\ ~stop_requested
    /\ Len(emails) = 2
    /\ handled[1].exit = "raised"
    /\ handled[2].exit = "completed"
    /\ metrics.emails_errored = 1
    /\ metrics.emails_processed = 1

\* what the classifier answered for the current message, when it answered
\* with a classification
Answered ==
    { calls[i].arg : i \in { k \in CallsOf("classify") :
          calls[k].res = "ok" /\ calls[k].arg \notin {"<bad_format>", "<not_dict>"} } }

AllowedLabelSet ==
    { "no_reply_no_info", "no_reply_with_info", "auto_reply_no_info",
      "auto_reply_with_info", "invoice_request_no_info", "claims_paid_no_proof",
      "claims_paid_with_proof", "manual_review", "uncategorised" }

\* C4: every persisted record carries a label of the closed set; the label the
\* pipeline holds after classification is the answered one if it is allowed
\* and "uncategorised" otherwise (also for a missing label); and a message is
\* never counted as errored because of the answered label.
C4_LabelCoercion ==
    /\ \A i \in 1..Len(mongo) : mongo[i].classification \in AllowedLabelSet
    /\ \A x \in Answered :
          /\ pc \in {"reply", "persist", "move", "mark"} =>
                label = (IF x \in AllowedLabelSet THEN x ELSE "uncategorised")
          /\ \A i \in CallsOf("insert") :
                calls[i].arg = (IF x \in AllowedLabelSet THEN x ELSE "uncategorised")
    /\ RaisedOnlyByStoreOrToken

C4_Witness ==
    /\ Finished
    /\ handled[idx].exit = "completed"
    /\ Answered = {"not_a_label"}
    /\ \E i \in RecordsOf(emails[idx]) : mongo[i].classification = "uncategorised"

\* the classifier was unavailable, or its call failed, for the current message
ClassifierFailed ==
    \/ calls # << >> /\ calls[1].op = "health" /\ calls[1].res = "fail"
    \/ \E i \in CallsOf("classify") :
          calls[i].res = "fail" \/ calls[i].arg \in {"<bad_format>", "<not_dict>"}

\* C5: when the classifier is unavailable or its call fails, the message gets
\* "uncategorised" with confidence 0.0 after at most one classification
\* request, goes on to the persist step, and completes as an uncategorised
\* message (record persisted, routed to the folder of "uncategorised" if there
\* is one, left unread, counted as processed) unless the store or the token
\* acquisition fails.
C5_ClassifierDegrades ==
    /\ Cardinality(CallsOf("classify")) <= 1
    /\ ClassifierFailed =>
          /\ pc # "classify"
          /\ Handling => (label = "uncategorised" /\ confidence = 0)
          /\ \A i \in CallsOf("insert") : calls[i].arg = "uncategorised"
          /\ \A i \in CallsOf("move") : calls[i].arg = FolderIdOf("uncategorised")
          /\ \A i \in CallsOf("mark") : calls[i].arg = "unread"
          /\ RaisedOnlyByStoreOrToken
          /\ Finished => handled[idx].exit # "skipped"
          /\ (Finished /\ handled[idx].exit = "completed") =>
                /\ \E i \in 1..Len(mongo) :
                      /\ mongo[i].message_id = message_id
                      /\ mongo[i].classification = "uncategorised"
                      /\ mongo[i].confidence = 0
                      /\ mongo[i].batch_id = run
                /\ CallsOf("mark") # {}
                /\ ("uncategorised" \in DOMAIN folder_mapping) => CallsOf("move") # {}

C5_Witness ==
    /\ Finished
    /\ handled[idx].exit = "completed"
    /\ calls[1].op = "health"
    /\ calls[1].res = "fail"
    /\ CallsOf("classify") = {}
    /\ metrics.emails_processed = 1
    /\ \E i \in RecordsOf(NewId(emails[idx])) :
          mongo[i].classification = "uncategorised" /\ mongo[i].confidence = 0

\* a request of the reply stage failed for the current message
ReplyFailed ==
    \E i \in 1..Len(calls) :
        \/ calls[i].op = "reply" /\ calls[i].res = "fail"
        \/ calls[i].op = "health" /\ calls[i].res = "fail" /\ i > 1

\* C6: when reply generation fails for a message with a response-eligible
\* label, the message is degraded to "uncategorised" with an empty reply: it
\* is persisted, routed and flagged as an uncategorised message.
C6_ReplyFailureDegrades ==
    ReplyFailed =>
        /\ pc \in {"persist", "move", "mark"} =>
              (label = "uncategorised" /\ reply_text = "")
        /\ \A i \in CallsOf("insert") : calls[i].arg = "uncategorised"
        /\ \A i \in CallsOf("mark") : calls[i].arg = "unread"

ResponseEligible == { "invoice_request_no_info", "claims_paid_no_proof" }

\* requests of the reply stage: the reply request and the health check
\* that precedes it (the classification stage issues the first health check)
ReplyStageCalls ==
    CallsOf("reply") \cup { i \in CallsOf("health") : i > 1 }

\* C7: the reply generator is contacted only for a message whose coerced
\* label is invoice_request_no_info or claims_paid_no_proof; for every other
\* label no request of the reply stage is issued and the persisted reply is
\* empty.
C7_ReplyOnlyForEligible ==
    /\ \A i \in CallsOf("reply") : calls[i].arg \in ResponseEligible
    /\ ReplyStageCalls # {} => label \in ResponseEligible
    /\ (pc \in {"persist", "move", "mark"} /\ label \notin ResponseEligible) =>
          reply_text = ""
    /\ \A i \in 1..Len(mongo) :
          mongo[i].classification \notin ResponseEligible => mongo[i].response = ""

C7_Witness ==
    /\ Finished
    /\ handled[idx].exit = "completed"
    /\ label = "auto_reply_with_info"
    /\ ReplyStageCalls = {}
    /\ \E i \in 1..Len(mongo) :
          mongo[i].classification = "auto_reply_with_info" /\ mongo[i].response = ""
    /\ \E i \in 1..Len(mongo) :
          mongo[i].classification = "invoice_request_no_info"
          /\ mongo[i].response # ""

ReviewSet == { "manual_review", "uncategorised" }

\* C8: every persisted record has save_as_draft = TRUE when sending is
\* disabled or drafts are forced; when sending is enabled and drafts are not
\* forced, save_as_draft is TRUE exactly for manual_review and uncategorised.
C8_DraftForcing ==
    \A i \in 1..Len(mongo) :
        /\ (~MAIL_SEND_ENABLED \/ FORCE_DRAFTS) => mongo[i].save_as_draft
        /\ (MAIL_SEND_ENABLED /\ ~FORCE_DRAFTS) =>
              (mongo[i].save_as_draft <=> mongo[i].classification \in ReviewSet)

C8_Witness ==
    /\ ~MAIL_SEND_ENABLED
    /\ ~FORCE_DRAFTS
    /\ \E i \in 1..Len(mongo) :
          mongo[i].classification = "invoice_request_no_info"
          /\ mongo[i].save_as_draft

\* C9: a message that completes its lifecycle has exactly one read/unread
\* patch, issued last (after the insert and any move), addressed to the id the
\* pipeline tracks, with is_read = TRUE iff the persisted label is neither
\* manual_review nor uncategorised; no message ever gets a second patch, and a
\* message recorded with one of these two labels is still unread.
C9_MarkOnce ==
    /\ Cardinality(CallsOf("mark")) <= 1
    /\ \A i \in CallsOf("mark") :
          /\ i = Len(calls)
          /\ calls[i].id = message_id
          /\ \E k \in CallsOf("insert") : k < i /\ calls[k].arg = label
          /\ calls[i].arg = (IF label \in ReviewSet THEN "unread" ELSE "read")
    /\ (Finished /\ handled[idx].exit = "completed") =>
          Cardinality(CallsOf("mark")) = 1
    /\ \A m \in MsgIds : \A i \in RecordsOf(mailbox[m].id) :
          mongo[i].classification \in ReviewSet => ~mailbox[m].isRead

C9_Witness ==
    /\ Finished
    /\ handled[idx].exit = "completed"
    /\ label = "manual_review"
    /\ \E i \in CallsOf("move") : calls[i].res = "ok"
    /\ Last(calls).op = "mark"
    /\ Last(calls).arg = "unread"
    /\ Last(calls).id = NewId(emails[idx])

MoveOk == \E i \in CallsOf("move") : calls[i].res = "ok"

InsertOk == \E i \in CallsOf("insert") : calls[i].res = "ok"

MoveTracked ==
    \E i \in CallsOf("move") : calls[i].res = "ok" /\ calls[i].ret # NoId

MovedBefore == { i \in 1..Len(handled) : handled[i].tracked }

\* C10: a failed move or an absent folder mapping is not fatal: without a
\* mapping no move request is issued; in both cases the message stays in the
\* inbox under its id, the record and the pipeline keep the original id, the
\* read/unread patch goes to the original id, emails_moved counts only the
\* successful moves that returned an id, and the message completes as
\* processed unless the token
\* acquisition of the read/unread patch fails.
C10_MoveFailureNonFatal ==
    /\ (Handling /\ pc # "move" /\ label \notin DOMAIN folder_mapping) =>
          CallsOf("move") = {}
    /\ (InsertOk /\ ~MoveOk /\ pc # "move") =>
          /\ message_id = emails[idx]
          /\ RecordsOf(emails[idx]) # {}
          /\ mailbox[emails[idx]].id = emails[idx]
          /\ mailbox[emails[idx]].folder = Inbox
          /\ \A i \in CallsOf("mark") : calls[i].id = emails[idx]
    /\ metrics.emails_moved =
          Cardinality(MovedBefore) + (IF ~Finished /\ MoveTracked THEN 1 ELSE 0)
    /\ (\E i \in CallsOf("move") : calls[i].res = "fail") =>
          /\ pc # "move"
          /\ Finished =>
                \/ handled[idx].exit = "completed"
                \/ /\ handled[idx].exit = "raised"
                   /\ Last(calls).op = "token"
                   /\ Last(calls).res = "fail"
                   /\ Len(calls) > Max(CallsOf("move"))

C10_Witness ==
    /\ Finished
    /\ handled[idx].exit = "completed"
    /\ \E i \in CallsOf("move") : calls[i].res = "fail"
    /\ Last(calls).op = "mark"
    /\ Last(calls).id = emails[idx]
    /\ metrics.emails_moved = 0
    /\ metrics.emails_processed = 1
    /\ mailbox[emails[idx]].folder = Inbox

\* the entries of the run-level log for one kind of request
RunCallsOf(op) == { i \in 1..Len(run_log) : run_log[i].op = op }

\* folder reconciliation of the current run returned an empty mapping
FoldersEmpty ==
    \E i \in RunCallsOf("folders") : run_log[i].res = "empty"

\* C11: when folder reconciliation yields an empty mapping the run has
\* returned (False, 0, 0, 0) right away: no listing was requested, no message
\* was fetched or started, no request was issued for any message and every
\* counter is zero.  A run that went on to process messages reports
\* success = TRUE, so the two outcomes differ in the success flag.
C11_EmptyMappingAborts ==
    /\ FoldersEmpty =>
          /\ pc = "returned"
          /\ result = EarlyReturn(FALSE)
          /\ RunCallsOf("list") = {}
          /\ emails = << >>
          /\ idx = 0
          /\ started = << >>
          /\ handled = << >>
          /\ calls = << >>
          /\ metrics = ZeroMetrics
    /\ (pc = "returned" /\ started # << >>) => result.success

C11_Witness ==
    /\ run = 2
    /\ FoldersEmpty
    /\ pc = "returned"
    /\ result = EarlyReturn(FALSE)
    /\ mongo # << >>
    /\ UnreadInbox # << >>

\* the listing of the current run failed after its retries
ListingFailed ==
    \E i \in RunCallsOf("list") : run_log[i].res = "failed"

\* C17: a run that was not stopped and returned (True, 0, 0, 0) without
\* fetching a message had a successful listing of a mailbox without unread
\* messages; a listing that failed is not reported as such a run.
C17_ListingFailureSurfaced ==
    (pc = "returned" /\ ~stop_requested /\ ListingFailed) =>
        result # EarlyReturn(TRUE)

\* a token acquisition failed during the current run: at run level, or for
\* the message the loop took last
TokenFailed ==
    \/ \E i \in 1..Len(run_log) : run_log[i].res = "token_fail"
    \/ \E i \in CallsOf("token") : calls[i].res = "fail"

\* C20: once a token acquisition has failed, the run has ended and reports
\* failure, wherever the acquisition was made (folder reconciliation, listing,
\* move or read/unread patch of a message).
C20_AuthFailureFatal ==
    TokenFailed => (pc = "returned" /\ ~result.success)

\* --------------------------------------------------- retry_with_backoff
TransportErrorTypes == {"TimeoutException", "ConnectError"}

\* the nominal backoff before the i-th sleep, in the unit of sleeps
Nominal(i) == initial_backoff * 2^(i - 1) * 1000

\* C12: when an operation fails k < max_retries times with an error the
\* wrapper retries (a timeout or a network error) and then succeeds, the
\* wrapper returns the operation's result after k + 1 invocations and k
\* sleeps; while it is still trying it has slept once per failure; and the
\* i-th sleep is at least initial_backoff * 2^(i-1) and at most 10% more.
C12_RetryThenSuccess ==
    /\ \A i \in 1..Len(sleeps) :
          /\ sleeps[i] >= Nominal(i)
          /\ 10 * sleeps[i] <= 11 * Nominal(i)
    /\ wpc = "try" =>
          /\ Len(invocations) < max_retries
          /\ Len(sleeps) = Len(invocations)
    /\ (func = "operation" /\ wpc = "returned") =>
          LET k == Len(invocations) - 1 IN
          /\ k < max_retries
          /\ \A i \in 1..k :
                /\ invocations[i].raised
                /\ invocations[i].error.type \in TransportErrorTypes
          /\ ~invocations[k + 1].raised
          /\ Len(sleeps) = k
          /\ outcome = [kind |-> "return", value |-> "result", error |-> NoError]

C12_Witness ==
    /\ func = "operation"
    /\ wpc = "returned"
    /\ max_retries = 3
    /\ initial_backoff = 150
    /\ Len(invocations) = 3
    /\ sleeps = << 164850, 300000 >>
    /\ outcome.value = "result"

\* every invocation so far failed with an error the wrapper retries
AllFailedRetryable ==
    \A i \in 1..Len(invocations) :
        /\ invocations[i].raised
        /\ invocations[i].error.type \in TransportErrorTypes

\* C13: the operation is never invoked more than max_retries times; when it
\* failed with a timeout or network error on every attempt, the wrapper has
\* invoked it exactly max_retries times, slept max_retries - 1 times and
\* raised the error of the last attempt.
C13_ExhaustionReraises ==
    /\ Len(invocations) <= max_retries
    /\ (wpc = "raised" /\ AllFailedRetryable) =>
          /\ Len(invocations) = max_retries
          /\ Len(sleeps) = max_retries - 1
          /\ outcome.kind = "raise"
          /\ outcome.error = Last(invocations).error

C13_Witness ==
    /\ func = "operation"
    /\ wpc = "raised"
    /\ max_retries = 3
    /\ Len(invocations) = 3
    /\ invocations[1].error.type = "TimeoutException"
    /\ invocations[2].error.type = "TimeoutException"
    /\ invocations[3].error.type = "ConnectError"
    /\ outcome.error.type = "ConnectError"
    /\ Len(sleeps) = 2

\* an HTTP 4xx status other than 429 and 408
NonTransient(e) ==
    /\ e.type = "HTTPStatusError"
    /\ e.status \in 400..499
    /\ e.status \notin {429, 408}

\* C14: an invocation that fails with a 4xx status other than 429 and 408 is
\* the last one: the wrapper has raised that error at once, and no sleep and
\* no further invocation followed it (an operation that fails this way on
\* its first attempt is invoked exactly once).
C14_ClientErrorNotRetried ==
    \A i \in 1..Len(invocations) :
        (invocations[i].raised /\ NonTransient(invocations[i].error)) =>
            /\ i = Len(invocations)
            /\ wpc = "raised"
            /\ outcome.kind = "raise"
            /\ outcome.error = invocations[i].error
            /\ Len(sleeps) = i - 1

C14_Witness ==
    /\ func = "operation"
    /\ max_retries = 3
    /\ wpc = "raised"
    /\ Len(invocations) = 1
    /\ invocations[1].error = [type |-> "HTTPStatusError", status |-> 404]
    /\ outcome.error.status = 404
    /\ sleeps = << >>

\* the transient remote errors: a timeout or network error, a 429 or 408
\* status, a 5xx status
Transient(e) ==
    \/ e.type \in TransportErrorTypes
    \/ /\ e.type = "HTTPStatusError"
       /\ (e.status \in {429, 408} \/ e.status >= 500)

\* C15: when the wrapper raises a transient error of an operation, it has
\* invoked the operation max_retries times.
C15_TransientRetried ==
    (func = "operation" /\ wpc = "raised" /\ Transient(outcome.error)) =>
        Len(invocations) = max_retries

\* C16: when the wrapped move or read/unread patch reports a failure caused
\* by a transient error of its HTTP request, the request was issued
\* max_retries (3) times.
C16_PipelineOpsRetried ==
    ( /\ func \in {"move_email_to_folder", "mark_email_read_status"}
      /\ wpc = "returned"
      /\ Transient(Last(invocations).error) ) =>
        Len(invocations) = max_retries

\* ------------------------------------------------------ get_access_token
\* C18 as stated: the cached token is returned without an exchange iff a
\* token is cached, its expiry exceeds now + 60 and force_refresh is false;
\* in every other case exactly one exchange is made, and on success the cache
\* holds the new token with expiry now + lifetime and that token is returned.
C18_CachedOrOneExchange ==
    client_calls > 0 =>
        LET c == token_call IN
        /\ (c.fresh /\ ~c.force_refresh) =>
              /\ c.exchanges = 0
              /\ ~c.raised
              /\ c.token = c.before.token
              /\ c.after = c.before
        /\ ~(c.fresh /\ ~c.force_refresh) =>
              /\ c.exchanges = 1
              /\ ~c.raised =>
                    /\ c.after = [token |-> c.token, expires_at |-> c.at + c.lifetime]
                    /\ c.token # c.before.token
                    /\ token_cache = c.after

\* C18 amended: as above, except that in every other case exactly one
\* exchange is made when the required configuration is present, and none
\* when it is missing (the call then raises).
C18_CachedOrOneExchangeIfConfigured ==
    client_calls > 0 =>
        LET c == token_call IN
        /\ (c.fresh /\ ~c.force_refresh) =>
              /\ c.exchanges = 0
              /\ ~c.raised
              /\ c.token = c.before.token
              /\ c.after = c.before
        /\ ~(c.fresh /\ ~c.force_refresh) =>
              /\ c.config_ok => c.exchanges = 1
              /\ ~c.config_ok => (c.exchanges = 0 /\ c.raised)
              /\ ~c.raised =>
                    /\ c.after = [token |-> c.token, expires_at |-> c.at + c.lifetime]
                    /\ c.token # c.before.token
                    /\ token_cache = c.after

C18_Witness ==
    /\ client_calls = 2
    /\ token_call.before = [token |-> 1, expires_at |-> 61]
    /\ token_call.at = 1
    /\ ~token_call.force_refresh
    /\ token_call.exchanges = 1
    /\ token_call.token = 2
    /\ token_cache = [token |-> 2, expires_at |-> 62]

\* C19: an invocation in which get_access_token raised made at most one
\* exchange, left the cache as it was and issued no request; the wrapper
\* raised at once: no sleep and no further invocation followed.
C19_TokenFailureNotRetried ==
    \A i \in 1..Len(invocations) :
        invocations[i].token_raised =>
            /\ invocations[i].exchanges <= 1
            /\ invocations[i].cache_kept
            /\ ~invocations[i].requested
            /\ i = Len(invocations)
            /\ wpc = "raised"
            /\ outcome.kind = "raise"
            /\ sleeps = << >>

C19_Witness ==
    /\ client_calls = 2
    /\ func = "move_email_to_folder"
    /\ wpc = "raised"
    /\ Len(invocations) = 1
    /\ invocations[1].token_raised
    /\ invocations[1].exchanges = 1
    /\ token_cache = [token |-> 1, expires_at |-> 60]

\* ------------------------------------------------ cancellation, sync, run
\* C28: the stop flag is looked at only between messages.  While the flag is
\* set no message is started; a message that was started when the flag was
\* set goes on with its steps (the flag alone never takes the run out of a
\* message: only a KeyboardInterrupt does, and the loop is left through the
\* flag with every started message finished); and a run that ended after the
\* flag was set returns the counters as accumulated.
C28_CooperativeStop ==
    /\ [][ (stop_requested /\ run' = run) => started' = started ]_vars
    /\ [][ (Handling /\ stop_requested /\ ~Interrupt /\ pc' # pc) =>
              pc' \in {"classify", "reply", "persist", "move", "mark", "loop"} ]_vars
    /\ [](pc = "sync" => Len(handled) = Len(started))
    /\ []((pc = "returned" /\ stop_requested /\ emails # << >>) =>
              result = Returned(TRUE))

C28_Witness ==
    /\ pc = "returned"
    /\ stop_requested
    /\ Len(emails) = 2
    /\ Len(started) = 1
    /\ Len(handled) = 1
    /\ handled[1].exit = "completed"
    /\ RunCallsOf("sync") # {}
    /\ result = [success |-> TRUE, processed |-> 1, errored |-> 0, classified |-> 1]

\* C29: a run that fetched a non-empty batch and has returned has called
\* the synchronization with the secondary store.
C29_SyncBeforeReturn ==
    (pc = "returned" /\ emails # << >>) => RunCallsOf("sync") # {}

\* the run handled one new message for which every collaborator succeeded
\* and the classifier answered invoice_request_no_info
OneInvoiceRequest ==
    /\ pc = "returned"
    /\ Len(emails) = 1
    /\ Len(handled) = 1
    /\ ~started[1].known
    /\ "invoice_request_no_info" \in DOMAIN folder_mapping
    /\ Answered = {"invoice_request_no_info"}
    /\ \A i \in 1..Len(calls) : calls[i].res = "ok"
    /\ \E i \in CallsOf("move") : calls[i].ret = NewId(emails[1])
    /\ \E i \in 1..Len(mongo) :
          mongo[i].message_id = NewId(emails[1]) /\ mongo[i].response # ""
    /\ RunCallsOf("sync") # {}

\* C30: in such a run the reply generator was called for the label, the
\* message was moved to the folder of invoice_request_no_info and got a new
\* id, the record is tracked under the new id, the message is marked read,
\* and the run reports processed = 1, classified = 1, moved = 1, errored = 0.
C30_EndToEnd ==
    OneInvoiceRequest =>
        /\ \E i \in CallsOf("reply") : calls[i].arg = "invoice_request_no_info"
        /\ \E i \in CallsOf("move") :
              /\ calls[i].id = emails[1]
              /\ calls[i].arg = folder_mapping["invoice_request_no_info"]
        /\ mailbox[emails[1]] =
              [ id |-> NewId(emails[1]),
                folder |-> folder_mapping["invoice_request_no_info"],
                isRead |-> TRUE ]
        /\ RecordsOf(emails[1]) = {}
        /\ \E i \in RecordsOf(NewId(emails[1])) :
              /\ mongo[i].classification = "invoice_request_no_info"
              /\ mongo[i].batch_id = run
        /\ Last(calls) = Call("mark", NewId(emails[1]), "read", "ok", NoId)
        /\ metrics = [ emails_processed |-> 1, emails_classified |-> 1,
                       emails_skipped |-> 0, emails_errored |-> 0,
                       emails_moved |-> 1 ]
        /\ result = [success |-> TRUE, processed |-> 1, errored |-> 0,
                     classified |-> 1]

C30_Witness ==
    /\ OneInvoiceRequest
    /\ run = 1
    /\ ~stop_requested
    /\ metrics.emails_moved = 1
    /\ mailbox[emails[1]].isRead

\* ------------------------------------------------------ get_all_pages
\* the "value" arrays of pages 1..k, concatenated
RECURSIVE Concat(_, _)
Concat(ch, k) ==
    IF k = 0 THEN << >> ELSE Concat(ch, k - 1) \o PageValue(ch[k])

NoPageError == \A k \in 1..Len(chain) : chain[k].kind \notin FailKinds

Walking == gpc \in {"request", "items", "done"}

\* C21: in a walk over a chain without page error, what has been yielded is
\* always a prefix of the concatenated "value" arrays, never longer than
\* max_items; the pages are requested in chain order, and none is requested
\* once max_items elements are out (the last requested page is the one
\* where the bound was hit); when the walk has ended exactly the first
\* min(max_items, total) elements are out.  A max_items that was not given
\* stands for the batch size of the instance, a batch size of 0 for no bound.
C21_FirstMinItems ==
    (Walking /\ NoPageError) =>
        LET all == Concat(chain, Len(chain))
            bound == IF max_items # NoLimit /\ max_items < Len(all)
                     THEN max_items ELSE Len(all)
        IN
        /\ Len(yielded) <= bound
        /\ yielded = SubSeq(all, 1, Len(yielded))
        /\ requests = [ i \in 1..Len(requests) |-> i ]
        /\ (max_items # NoLimit /\ Len(yielded) = max_items) =>
              /\ gpc = "done"
              /\ Len(Concat(chain, Len(requests) - 1)) < max_items
        /\ gpc = "done" => yielded = SubSeq(all, 1, bound)

\* max_items = 5 over pages of 2 + 2 + 2 items: five items, not the sixth
C21_Witness ==
    /\ gpc = "done"
    /\ Len(chain) = 3
    /\ \A k \in 1..3 : chain[k].kind = "ok" /\ Len(chain[k].value) = 2
    /\ max_items = 5
    /\ yielded = << 1, 2, 3, 4, 5 >>
    /\ requests = << 1, 2, 3 >>

\* C22: when the request of a page fails, the walk has ended there: the
\* elements of all earlier pages are out, the failed page is the last one
\* requested, and nothing was raised to the consumer.  The only exception a
\* walk raises is that of the token acquisition, before any page request.
C22_PageFailureEndsWalk ==
    /\ gpc = "raised" => (requests = << >> /\ yielded = << >>)
    /\ \A i \in 1..Len(requests) :
          chain[requests[i]].kind \in FailKinds =>
              /\ gpc = "done"
              /\ i = Len(requests)
              /\ yielded = Concat(chain, requests[i] - 1)

C22_Witness ==
    /\ gpc = "done"
    /\ Len(chain) = 3
    /\ chain[1].kind = "ok"
    /\ chain[2].kind = "not_json"
    /\ chain[3].kind = "ok" /\ Len(chain[3].value) = 2
    /\ requests = << 1, 2 >>
    /\ yielded = << 1, 2 >>

\* --------------------------------------- _extract_clean_email_content
Extracted == extraction # << >>

\* the trimmed length of the content of a body of the message, 0 when the
\* body or its content is missing
TrimmedLength(key) ==
    IF key \in DOMAIN msg /\ msg[key] # << >> /\ "content" \in DOMAIN msg[key]
    THEN Len(strip(msg[key].content))
    ELSE 0

BothBodiesHaveContent ==
    /\ msg.uniqueBody # << >> /\ msg.uniqueBody.content # << >>
    /\ msg.body # << >> /\ msg.body.content # << >>

\* C23: had_threads is true exactly when the unique body and the full body
\* both have non-empty content, the trimmed unique length U is positive and
\* the trimmed full length F is above 1.2 * U; whatever source supplied the
\* text.
C23_ThreadDetection ==
    Extracted =>
        ( extraction.had_threads <=>
            /\ BothBodiesHaveContent
            /\ TrimmedLength("uniqueBody") > 0
            /\ 5 * TrimmedLength("body") > 6 * TrimmedLength("uniqueBody") )

\* a thread is detected although the text comes from the full body
C23_Witness ==
    /\ Extracted
    /\ extraction.had_threads
    /\ TrimmedLength("uniqueBody") = 1
    /\ TrimmedLength("body") = 2
    /\ extraction.data_source = "body_text"

\* the declared type of a body of the message, lower case
DeclaredType(key) == Lower(DictGet(msg[key], "contentType", ""))

CleanTextOf(key) ==
    IF ~HasContent(msg[key]) THEN << >>
    ELSE IF DeclaredType(key) = "text" THEN strip(msg[key].content)
    ELSE IF DeclaredType(key) = "html" THEN _html_to_text(strip(msg[key].content))
    ELSE << >>

TagOf(key) ==
    IF key = "uniqueBody"
    THEN (IF DeclaredType(key) = "text"
          THEN "uniqueBody_text" ELSE "uniqueBody_html_converted")
    ELSE (IF DeclaredType(key) = "text"
          THEN "body_text" ELSE "body_html_converted")

CallLog(c) == SelectSeq(graph_log, LAMBDA e : e.call = c)

LabelLog(c, l) == SelectSeq(graph_log, LAMBDA e : e.call = c /\ e.label = l)

\* no request of the call failed, its listing of the children was complete,
\* and no other client made a folder while it ran
Undisturbed(c) ==
    \A i \in 1..Len(graph_log) :
        graph_log[i].call = c =>
            graph_log[i].res \notin { "fail", "cut", "conflict" }

Creations(c) ==
    { i \in 1..Len(graph_log) :
        /\ graph_log[i].call = c
        /\ graph_log[i].op \in { "create", "create_parent" } }

Resolved == { FolderLabels[i] : i \in 1..label_pos }

ResolvedByLastCall(l) ==
    LET ops == LabelLog(Len(returns), l) IN
    /\ \A i \in 1..Len(ops) : ops[i].res # "fail"
    /\ \/ /\ ops = << >>
          /\ normalize(display(l)) \in DOMAIN child_lookup
       \/ /\ ops # << >>
          /\ Last(ops).res \in { "ok", "created", "found" }

\* C27: the map a call returns has an entry for every label that was
\* resolved, whatever failed for another label.
C27_FailureOnlyOmits ==
    (fpc = "returned" /\ returns # << >> /\ ~Last(returns).raised) =>
        \A l \in Resolved :
            ResolvedByLastCall(l) => l \in DOMAIN Last(returns).map

\* ---------------------------------------------------------- run metrics
InsertedInRun == { i \in 1..Len(mongo) : mongo[i].batch_id = run }

SuccessfulMoves ==
    Cardinality({ i \in 1..Len(handled) : handled[i].moved })
        + (IF ~Finished /\ MoveOk THEN 1 ELSE 0)

\* C34: the three counters processed, skipped and errored partition the
\* messages that left _process_single_email; emails_moved equals the number
\* of move requests that succeeded in the run and never exceeds the number of
\* records inserted in the run.
C34_MetricsPartition ==
    /\ metrics.emails_processed + metrics.emails_skipped
           + metrics.emails_errored = Len(handled)
    /\ metrics.emails_moved = SuccessfulMoves
    /\ metrics.emails_moved <= Cardinality(InsertedInRun)

\* what holds of the counters: the partition, and emails_moved as the number
\* of successful moves whose answer carried an id (line 848)
C34_CountersAsCoded ==
    /\ metrics.emails_processed + metrics.emails_skipped
           + metrics.emails_errored = Len(handled)
    /\ metrics.emails_moved =
          Cardinality(MovedBefore) + (IF ~Finished /\ MoveTracked THEN 1 ELSE 0)
    /\ metrics.emails_moved <= SuccessfulMoves
    /\ SuccessfulMoves <= Cardinality(InsertedInRun)

\* ------------------------------------------------- persist, then route
\* the records this run inserted for the message the loop took last, under
\* the id it was fetched with or the id the pipeline tracks it by after a move
RecordsOfCurrent ==
    { i \in InsertedInRun : mongo[i].message_id \in { emails[idx], message_id } }

\* C35: a move request or a read/unread patch of a message is issued only
\* after the insert of its record succeeded in the same run; after a failed
\* insert the message gets no move and no read/unread request and is counted
\* as errored; and a message gets at most one insert, one move request and
\* one read/unread patch in a run.
C35_PersistPrecedesRouting ==
    /\ \A i \in CallsOf("move") \cup CallsOf("mark") :
          /\ \E k \in CallsOf("insert") :
                k < i /\ calls[k].res = "ok" /\ calls[k].id = emails[idx]
          /\ RecordsOfCurrent # {}
    /\ (\E k \in CallsOf("insert") : calls[k].res = "fail") =>
          /\ CallsOf("move") = {}
          /\ CallsOf("mark") = {}
          /\ Finished
          /\ handled[idx].exit = "raised"
          /\ metrics.emails_errored = Cardinality(Raised)
    /\ \A op \in {"insert", "move", "mark"} : Cardinality(CallsOf(op)) <= 1
    /\ \A i, j \in 1..Len(started) : started[i].id = started[j].id => i = j

C35_Witness ==
    /\ Len(handled) = 2
    /\ handled[1].exit = "raised"
    /\ ~handled[1].moved
    /\ RecordsOf(handled[1].id) = {}
    /\ metrics.emails_errored = 1
    /\ handled[2].exit = "completed"
    /\ \E k \in CallsOf("insert"), i \in CallsOf("move"), j \in CallsOf("mark") :
          /\ k < i
          /\ i < j
          /\ calls[k].res = "ok"
          /\ calls[i].res = "ok"
          /\ calls[j].res = "ok"
    /\ Cardinality(RecordsOfCurrent) = 1

\* ------------------------------------------------ termination of a walk
Stopped == gpc \in {"done", "raised"}

\* C33: every walk stops requesting pages and ends the sequence, whatever
\* chain of pages the source serves (a walk that is still yielding when it
\* has counted MaxCount items is not judged).
C33_WalkTerminates == <>(Stopped \/ count = MaxCount)

\* a chain whose next links all point forward
ForwardLinks ==
    \A k \in DOMAIN chain : chain[k].next = NoUrl \/ chain[k].next > k

\* what holds: the walk of a chain without a back link ends
C33_ForwardWalkTerminates == ForwardLinks => <>Stopped

\* ------------------------------------------- where the mapped folders are
NamedChildren(name) ==
    { i \in ChildrenOf(tree, parent_id) : tree[i].displayName = name }

\* C31: in a non-empty map that ensure_classification_folders returns (and
\* in the map it is building) every id is the id of a direct child of the
\* parent folder, the id recovered by the search after a creation conflict
\* included, and the parent has at most one child of each label's display
\* name.
C31_MappedUnderParent ==
    (fpc \in {"labels", "returned"} /\ folder_map # << >>) =>
        /\ \A l \in DOMAIN folder_map :
              /\ folder_map[l] \in 1..Len(tree)
              /\ tree[folder_map[l]].parent = parent_id
        /\ \A n \in 1..MaxLabels :
              Cardinality(NamedChildren(display(FolderLabels[n]))) <= 1
        /\ (fpc = "returned" /\ Last(returns).map # << >>) =>
              Last(returns).map = folder_map

\* one label was found elsewhere and moved, the other met a creation
\* conflict and was recovered by the second search
C31_Witness ==
    /\ fpc = "returned"
    /\ DOMAIN Last(returns).map = Range(FolderLabels)
    /\ \E i, j \in 1..Len(graph_log) :
          /\ graph_log[i].call = Len(returns)
          /\ graph_log[i].op = "move"
          /\ graph_log[i].res = "ok"
          /\ tree[graph_log[i].id].parent = parent_id
          /\ graph_log[j].call = Len(returns)
          /\ graph_log[j].op = "create"
          /\ graph_log[j].res = "conflict"
          /\ graph_log[j + 1].op = "search"
          /\ graph_log[j + 1].res = "found"
          /\ Last(returns).map[graph_log[j].label] = graph_log[j + 1].id
          /\ tree[graph_log[j + 1].id].parent = parent_id

\* ------------------------------------------------- the child lookup
\* C32: the child lookup covers every direct child of the parent: when the
\* loop over the labels starts, every child whose normalized name is a
\* label's normalized display name has its key in the lookup, and a label
\* with such a child is resolved from the lookup with no request at all.
C32_LookupCoversChildren ==
    fpc = "labels" =>
        \A n \in 1..MaxLabels :
            LET l == FolderLabels[n]
                key == normalize(display(l))
            IN
            /\ label_pos = 0 =>
                  \A i \in ChildrenOf(tree, parent_id) :
                      normalize(tree[i].displayName) = key =>
                          key \in DOMAIN child_lookup
            /\ (n <= label_pos /\ key \in DOMAIN child_lookup) =>
                  /\ LabelLog(Len(returns) + 1, l) = << >>
                  /\ folder_map[l] = child_lookup[key]

\* what holds: the lookup holds children of the parent only, the first ones
\* of the listing, as many as batch_size allows at most
C32_LookupOfListedPrefix ==
    (fpc = "labels" /\ label_pos = 0) =>
        \E n \in 0..ListingBound(Cardinality(ChildrenOf(tree, parent_id))) :
            \A k \in DOMAIN child_lookup :
                /\ child_lookup[k] \in ChildrenOf(tree, parent_id)
                /\ Cardinality({ j \in ChildrenOf(tree, parent_id) :
                                   j <= child_lookup[k] }) <= n

====
